---- MODULE Spec2Model ----
(***************************************************************************)
(* FlickPick real-time session coordinator (socket handler + HTTP routes). *)
(*                                                                         *)
(* One persisted group (session) is modelled together with the process-    *)
(* local presence registry, the socket.io room and a small pool of         *)
(* connections.  Every handler is cut at its awaits: one action is one     *)
(* Store operation together with the synchronous code that runs when the   *)
(* operation's promise resolves, up to the next await.  Handlers of        *)
(* different connections interleave freely between these steps.  The film  *)
(* lists of the browser client (hook and page) follow the events it is     *)
(* sent.                                                                   *)
(***************************************************************************)
EXTENDS Integers, Sequences, FiniteSets, TLC

\* ------------------------------------------------------------------ bounds
\* Number of client events / HTTP requests accepted from the initial state,
\* per specification.
MaxOps == 5
MaxGatedOps == 4
MaxQuorumOps == 4
MaxJoinOps == 3
MaxCatalogOps == 4
MaxVoteOps == 3
MaxErrorOps == 3
MaxRaceOps == 4
MaxReportOps == 5
MaxFilmOps == 3
MaxSerialOps == 5
MaxCodeOps == 3
MaxClientOps == 4
MaxReconnectOps == 4
MaxDepartOps == 4
MaxSessionOps == 3
MaxLeaveOps == 3

\* ------------------------------------------------------------- carrier sets
Names == {"A", "B", "C"}
Conns == {"s1", "s2"}
KinopoiskIds == {1, 2}
Verdicts == {"like", "dislike"}
NoName == ""
\* Participant names as clients may send them: the names, a blank name and a
\* name with a leading blank.
NameInputs == Names \cup {" ", " A"}
\* `addedBy: socket.data.participantName || 'Участник'`
DefaultAddedBy == "Participant"
\* `addedBy: 'Пользователь'` of the HTTP route
HttpAddedBy == "User"

\* The code of the one persisted group, as a sequence of characters.
GroupCode == <<"A", "B", "1", "2", "3">>
\* Group codes as clients may send them.
CodeInputs ==
  { GroupCode,
    <<" ", "a", "b", "1", "2", "3">>,
    <<"A", "B", "1", "2">>,
    <<"A", "B", "1", "2", "4">> }
NoCode == <<>>

\* ------------------------------------------------------------ string helpers
RECURSIVE TrimLeft(_)
TrimLeft(s) == IF s # <<>> /\ Head(s) = " " THEN TrimLeft(Tail(s)) ELSE s

RECURSIVE TrimRight(_)
TrimRight(s) ==
  IF s # <<>> /\ s[Len(s)] = " " THEN TrimRight(SubSeq(s, 1, Len(s) - 1)) ELSE s

Trim(s) == TrimRight(TrimLeft(s))

UpperChar(ch) ==
  CASE ch = "a" -> "A"
    [] ch = "b" -> "B"
    [] OTHER -> ch

ToUpperCase(s) == [i \in 1..Len(s) |-> UpperChar(s[i])]

Slice(s, n) == SubSeq(s, 1, IF Len(s) < n THEN Len(s) ELSE n)

CodeMaxLen == 10
CodeLen == 5

\* participantName.trim().slice(0, 50) on the names of NameInputs (none is
\* longer than 50 characters).
SanitizeName(n) ==
  CASE n = " " -> NoName
    [] n = " A" -> "A"
    [] OTHER -> n

\* groupCode.trim().toUpperCase().slice(0, 10)
SanitizeCode(s) == Slice(ToUpperCase(Trim(s)), CodeMaxLen)

CodeChars == {"A", "B", "1", "2", "3", "4"}

\* Mutant: the length of the code is not tested.
IsValidCode_AnyLength(s) == \A i \in 1..Len(s) : s[i] \in CodeChars

\* /^[A-Z0-9]{5}$/.test(code)
IsValidCode(s) == Len(s) = CodeLen /\ \A i \in 1..Len(s) : s[i] \in CodeChars

\* ------------------------------------------------------------- list helpers
Range(s) == {s[i] : i \in 1..Len(s)}

\* participants.includes(name)
Includes(s, x) == x \in Range(s)

\* participants.filter(p => p !== name)
RECURSIVE Without(_, _)
Without(s, x) ==
  IF s = <<>> THEN <<>>
  ELSE IF Head(s) = x THEN Without(Tail(s), x)
       ELSE <<Head(s)>> \o Without(Tail(s), x)

NoDuplicates(s) == \A i, j \in 1..Len(s) : s[i] = s[j] => i = j

\* ------------------------------------------------------- results computation
NoFilm == 0

\* votesByFilm.get(kinopoiskId): the rows of one film.
FilmVotes(vs, kid) == {v \in vs : v.filmId = kid}
Likes(vs, kid) == Cardinality({v \in FilmVotes(vs, kid) : v.vote = "like"})
Dislikes(vs, kid) == Cardinality({v \in FilmVotes(vs, kid) : v.vote # "like"})

\* Mutant: a later film with as many likes replaces the bestMatch.
RECURSIVE ScanFilms_LaterTieWins(_, _, _, _)
ScanFilms_LaterTieWins(vs, fs, n, acc) ==
  IF fs = <<>> THEN acc
  ELSE
    LET kid == Head(fs).kinopoiskId
        l == Likes(vs, kid)
        d == Dislikes(vs, kid)
        sm == IF l = n /\ d = 0 THEN kid ELSE acc.superMatch
        better == acc.bestMatch = NoFilm \/ l >= acc.bestLikes
    IN IF FilmVotes(vs, kid) = {}
         THEN ScanFilms_LaterTieWins(vs, Tail(fs), n, acc)
         ELSE ScanFilms_LaterTieWins(vs, Tail(fs), n,
                [superMatch |-> sm,
                 bestMatch |-> IF better THEN kid ELSE acc.bestMatch,
                 bestLikes |-> IF better THEN l ELSE acc.bestLikes])

\* films.forEach(film => ...): one pass in catalog order over the films that
\* have at least one vote; acc is (superMatch, bestMatch, bestMatch.likes).
RECURSIVE ScanFilms(_, _, _, _)
ScanFilms(vs, fs, n, acc) ==
  IF fs = <<>> THEN acc
  ELSE
    LET kid == Head(fs).kinopoiskId
        l == Likes(vs, kid)
        d == Dislikes(vs, kid)
        sm == IF l = n /\ d = 0 THEN kid ELSE acc.superMatch
        better == acc.bestMatch = NoFilm \/ l > acc.bestLikes
    IN IF FilmVotes(vs, kid) = {}
         THEN ScanFilms(vs, Tail(fs), n, acc)
         ELSE ScanFilms(vs, Tail(fs), n,
                [superMatch |-> sm,
                 bestMatch |-> IF better THEN kid ELSE acc.bestMatch,
                 bestLikes |-> IF better THEN l ELSE acc.bestLikes])

calculateResults(vs, fs, ps) ==
  LET acc == ScanFilms(vs, fs, Len(ps),
               [superMatch |-> NoFilm, bestMatch |-> NoFilm, bestLikes |-> 0])
  IN [superMatch |-> acc.superMatch,
      bestMatch |-> acc.bestMatch,
      bestLikes |-> acc.bestLikes,
      totalParticipants |-> Len(ps),
      votedParticipants |-> Cardinality({v.participantId : v \in vs})]

NoResults ==
  [superMatch |-> NoFilm, bestMatch |-> NoFilm, bestLikes |-> 0,
   totalParticipants |-> 0, votedParticipants |-> 0]

\* votesByParticipant.get(p): the set of film ids p has a vote row for.
VotedFilmIds(vs, p) == {v.filmId : v \in {w \in vs : w.participantId = p}}

\* allParticipants.filter(p => votes(p) && votes(p).size === films.length)
RECURSIVE CompletedParticipants(_, _, _)
CompletedParticipants(ps, vs, fs) ==
  IF ps = <<>> THEN <<>>
  ELSE LET pv == VotedFilmIds(vs, Head(ps))
       IN (IF pv # {} /\ Cardinality(pv) = Len(fs) THEN <<Head(ps)>> ELSE <<>>)
          \o CompletedParticipants(Tail(ps), vs, fs)

\* Mutant: createdBy is taken as the leader without looking at the roster.
EffectiveCreator_IgnoresRoster(ps, cb) ==
  IF cb # NoName THEN cb
  ELSE IF Len(ps) > 0 THEN ps[1] ELSE NoName

\* (group.createdBy && participants.includes(group.createdBy))
\*   ? group.createdBy : (participants.length > 0 ? participants[0] : null)
EffectiveCreator(ps, cb) ==
  IF cb # NoName /\ Includes(ps, cb) THEN cb
  ELSE IF Len(ps) > 0 THEN ps[1] ELSE NoName

\* -------------------------------------------------------------------- state
VARIABLES
  participants,      \* Store: group.participants (roster, join order)
  createdBy,         \* Store: group.createdBy
  films,             \* Store: film rows of the group, catalog order
  votes,             \* Store: vote rows of the group
  groupParticipants, \* registry: names tracked as present
  groupSockets,      \* registry: socket ids tracked for the group
  room,              \* socket.io room of the group code
  sock,              \* per connection: open?, socket.data
  h,                 \* per connection: the handler in flight and its locals
  http,              \* the HTTP request in flight and its locals
  emitted,           \* events emitted by the last step
  allCompleted,      \* voting:all-completed broadcasts since creation / reset
  ops,               \* client events and HTTP requests still to be accepted
  client             \* per connection: the film lists of the browser client

vars ==
  <<participants, createdBy, films, votes, groupParticipants, groupSockets,
    room, sock, h, http, emitted, allCompleted, ops, client>>

store == <<participants, createdBy, films, votes>>
registry == <<groupParticipants, groupSockets>>

NoConn == "none"

\* A film row: the Store's document id, the kinopoiskId and who added it.
FilmRow(id, kinopoiskId, addedBy) ==
  [id |-> id, kinopoiskId |-> kinopoiskId, addedBy |-> addedBy]

\* `!filmId`: no document id; and a document id of no film.
NoFilmId == 0
UnknownFilmId == -1

NoFilmRow == FilmRow(NoFilmId, 0, NoName)

Idle ==
  [pc |-> "idle", code |-> NoCode, name |-> NoName, parts |-> <<>>,
   cb |-> NoName, vts |-> {}, film |-> NoFilmRow]

HttpIdle == [pc |-> "idle", name |-> NoName, parts |-> <<>>]

NoData == [open |-> FALSE, groupCode |-> NoCode, participantName |-> NoName]

\* An emitted event: `to` is the set of connections it is delivered to, `from`
\* the connection whose event is being handled; participant, participants,
\* films, full, count, total, results, message, filmId and vote are the
\* payload (full: `films` is the whole list, not the one film the event is
\* about and a null list).  The rd* fields are not
\* sent: they record the requester's name, what the handler had read from
\* the Store (roster, createdBy, vote rows, catalog) when it emitted,
\* whether it had called the Store at all (rdStore), and the rows it handed
\* to addVotes (rdBatch).
Event(ev, to, from, participant, plist) ==
  [ev |-> ev, to |-> to, from |-> from, participant |-> participant,
   participants |-> plist, films |-> <<>>, full |-> FALSE, count |-> 0,
   total |-> 0,
   results |-> NoResults, message |-> "", filmId |-> 0, vote |-> "",
   rdName |-> NoName, rdParts |-> <<>>, rdCb |-> NoName, rdVotes |-> {},
   rdFilms |-> <<>>, rdStore |-> FALSE, rdBatch |-> <<>>]

HandlerRead(e, name, parts, cb) ==
  [e EXCEPT !.rdName = name, !.rdParts = parts, !.rdCb = cb, !.rdStore = TRUE]

\* socket.emit('notification:error', ...)
ErrorTo(c) == Event("notification:error", {c}, c, NoName, <<>>)

\* `message: error.message` of the error addFilmToGroup throws for a film
\* that is already in the group; every other message is left blank.
AlreadyAdded == "already added"
\* 'Вы можете удалить только свои фильмы' of film:remove
NotYourFilm == "only your own films"

\* The error events a handler of c emits, before or after a Store call.
ErrorsTo(c) ==
  {[ErrorTo(c) EXCEPT !.rdStore = b, !.message = m] :
     b \in BOOLEAN, m \in {"", AlreadyAdded, NotYourFilm}}

\* The browser client of a connection: `films` of the useGroupSocket hook (a
\* list, or null), `initialFilms` of the group page, and the events of the
\* last step the client has handled; whether the hook's effect has run
\* (mounted), the nickname kept in sessionStorage for the group (savedName),
\* socket.connected as the client sees it (isConnected), whether the current
\* connection was made by a reconnection (reconnected), whether the
\* once('connect', joinGroup) listener is still registered (connectOnce) and
\* whether group:join was emitted on the current connection (joinEmitted).
ListOf(items) == [isList |-> TRUE, items |-> items]
NullList == [isList |-> FALSE, items |-> <<>>]

NewClient ==
  [films |-> ListOf(<<>>), initialFilms |-> <<>>, got |-> {},
   mounted |-> FALSE, savedName |-> NoName, isConnected |-> TRUE,
   reconnected |-> FALSE, connectOnce |-> FALSE, joinEmitted |-> FALSE]

\* The group is created over HTTP with participants = [creator] and
\* createdBy = creator.  The clients' sockets are connected (the connection
\* callback only installs the handlers); none has sent an event yet.
InitWith(budget) ==
  /\ participants = <<"A">>
  /\ createdBy = "A"
  /\ films = <<>>
  /\ votes = {}
  /\ groupParticipants = {}
  /\ groupSockets = {}
  /\ room = {}
  /\ sock = [c \in Conns |-> [NoData EXCEPT !.open = TRUE]]
  /\ h = [c \in Conns |-> Idle]
  /\ http = HttpIdle
  /\ emitted = {}
  /\ allCompleted = 0
  /\ ops = budget
  /\ client = [c \in Conns |-> NewClient]

Init == InitWith(MaxOps)

\* ------------------------------------------------- registry and Store calls
\* lib/socket: the presence registry keeps, per group, the set of participant
\* names tracked as present and the set of socket ids.
addParticipantToGroup(tracked, name) == tracked \cup {name}
removeParticipantFromGroup(tracked, name) == tracked \ {name}
addSocketToGroup(ids, id) == ids \cup {id}
removeSocketFromGroup(ids, id) == ids \ {id}

\* lib/database addFilmToGroup: a kinopoiskId already in the group's catalog
\* is refused ("already added").
FilmAlreadyAdded(fs, kinopoiskId) ==
  \E i \in 1..Len(fs) : fs[i].kinopoiskId = kinopoiskId

\* Mutant: the error is sent to the room as well.
Reject_ToRoom(c) ==
  /\ emitted' = {[ErrorTo(c) EXCEPT !.to = room \cup {c}]}
  /\ h' = [h EXCEPT ![c] = Idle]

\* A handler returns with an error before it has called the Store: nothing of
\* it stays in flight.
Reject(c) ==
  /\ emitted' = {ErrorTo(c)}
  /\ h' = [h EXCEPT ![c] = Idle]

\* A handler returns with an error after a Store call (group not found, a
\* refused request, a Store operation that threw).
RejectAfterStore(c) ==
  /\ emitted' = {[ErrorTo(c) EXCEPT !.rdStore = TRUE]}
  /\ h' = [h EXCEPT ![c] = Idle]

CanStart(c) == sock[c].open /\ h[c].pc = "idle" /\ ops > 0

\* io.on('connection'): a new socket with empty socket.data.
Connect(c) ==
  /\ ~sock[c].open
  /\ h[c].pc = "idle"
  /\ sock' = [sock EXCEPT ![c] = [NoData EXCEPT !.open = TRUE]]
  /\ emitted' = {}
  /\ UNCHANGED <<store, registry, room, h, http, allCompleted, ops>>
  /\ UNCHANGED client

\* ------------------------------------------------------------- group:join
\* Mutant: names tracked as present that are not in the roster stay tracked.
JoinRegister_KeepsStale(c, code, name, dbParticipants) ==
  LET wasAlreadyConnected == name \in groupParticipants
      tracked == IF wasAlreadyConnected THEN groupParticipants
                 ELSE addParticipantToGroup(groupParticipants, name)
  IN /\ sock' = [sock EXCEPT ![c].groupCode = code, ![c].participantName = name]
     /\ groupSockets' = addSocketToGroup(groupSockets, c)
     /\ room' = room \cup {c}
     /\ groupParticipants' = tracked
     /\ emitted' = {HandlerRead(Event("group:participant-joined",
                                      room \cup {c}, c, name, dbParticipants),
                                name, dbParticipants, NoName)}
     /\ h' = [h EXCEPT ![c] = [Idle EXCEPT !.pc = "join_films", !.code = code,
                                            !.name = name,
                                            !.parts = dbParticipants]]

\* The synchronous part of group:join after the roster is settled: socket.data,
\* registry, room, stale-presence cleanup and the participant-joined emit.
JoinRegister(c, code, name, dbParticipants) ==
  LET wasAlreadyConnected == name \in groupParticipants
      tracked == IF wasAlreadyConnected THEN groupParticipants
                 ELSE addParticipantToGroup(groupParticipants, name)
      staleParticipants == {p \in tracked : ~Includes(dbParticipants, p)}
  IN /\ sock' = [sock EXCEPT ![c].groupCode = code, ![c].participantName = name]
     /\ groupSockets' = addSocketToGroup(groupSockets, c)
     /\ room' = room \cup {c}
     /\ groupParticipants' = tracked \ staleParticipants
     /\ emitted' = {HandlerRead(Event("group:participant-joined",
                                      room \cup {c}, c, name, dbParticipants),
                                name, dbParticipants, NoName)}
     /\ h' = [h EXCEPT ![c] = [Idle EXCEPT !.pc = "join_films", !.code = code,
                                            !.name = name,
                                            !.parts = dbParticipants]]

\* socket.on('group:join'): validation, getGroupByCode, and either the await of
\* updateGroup (name not in the roster) or the registration.
GroupJoin(c, groupCode, participantName) ==
  LET sanitizedCode == SanitizeCode(groupCode)
      sanitizedParticipantName == SanitizeName(participantName)
  IN
  /\ CanStart(c)
  /\ ops' = ops - 1
  /\ IF \/ groupCode = <<>>
        \/ participantName = NoName
        \/ Len(sanitizedCode) = 0
        \/ sanitizedParticipantName = NoName
        \/ ~IsValidCode(sanitizedCode)
       THEN /\ Reject(c)
            /\ UNCHANGED <<store, registry, room, sock, http, allCompleted>>
       ELSE IF sanitizedCode # GroupCode
       THEN /\ RejectAfterStore(c)
            /\ UNCHANGED <<store, registry, room, sock, http, allCompleted>>
       ELSE /\ IF Includes(participants, sanitizedParticipantName)
                 THEN JoinRegister(c, sanitizedCode, sanitizedParticipantName,
                                   participants)
                 ELSE /\ h' = [h EXCEPT ![c] =
                                 [Idle EXCEPT !.pc = "join_write",
                                              !.code = sanitizedCode,
                                              !.name = sanitizedParticipantName,
                                              !.parts = participants]]
                      /\ emitted' = {}
                      /\ UNCHANGED <<registry, room, sock>>
            /\ UNCHANGED <<store, http, allCompleted>>
  /\ UNCHANGED client

\* Mutant: the name is appended to the roster as it is now in the Store
\* instead of the roster the handler read.
JoinWrite_AppendToCurrent(c, ok) ==
  /\ h[c].pc = "join_write"
  /\ LET updatedParticipants == Append(participants, h[c].name) IN
     /\ participants' = IF ok THEN updatedParticipants ELSE participants
     /\ JoinRegister(c, h[c].code, h[c].name,
                     IF ok THEN updatedParticipants ELSE h[c].parts)
  /\ UNCHANGED <<createdBy, films, votes, http, allCompleted, ops>>
  /\ UNCHANGED client

\* Mutant: the write merges the name into the roster as it is now in the
\* Store (an atomic array union) instead of replacing the whole list.
JoinWrite_MergesCurrent(c, ok) ==
  /\ h[c].pc = "join_write"
  /\ LET updatedParticipants ==
           IF Includes(participants, h[c].name) THEN participants
           ELSE Append(participants, h[c].name)
     IN
     /\ participants' = IF ok THEN updatedParticipants ELSE participants
     /\ JoinRegister(c, h[c].code, h[c].name,
                     IF ok THEN updatedParticipants ELSE h[c].parts)
  /\ UNCHANGED <<createdBy, films, votes, http, allCompleted, ops>>
  /\ UNCHANGED client

\* await updateGroup(group.id, { participants: [...dbParticipants, name] });
\* a failed write is logged and the join goes on with the roster as read.
JoinWrite(c, ok) ==
  /\ h[c].pc = "join_write"
  /\ LET updatedParticipants == Append(h[c].parts, h[c].name) IN
     /\ participants' = IF ok THEN updatedParticipants ELSE participants
     /\ JoinRegister(c, h[c].code, h[c].name,
                     IF ok THEN updatedParticipants ELSE h[c].parts)
  /\ UNCHANGED <<createdBy, films, votes, http, allCompleted, ops>>
  /\ UNCHANGED client

\* const films = await getFilmsByGroup(group.id); socket.emit('group:film-added')
JoinFilms(c) ==
  /\ h[c].pc = "join_films"
  /\ emitted' = {[Event("group:film-added", {c}, c, NoName, <<>>)
                    EXCEPT !.films = films, !.full = TRUE]}
  /\ h' = [h EXCEPT ![c] = Idle]
  /\ UNCHANGED <<store, registry, room, sock, http, allCompleted, ops>>
  /\ UNCHANGED client

\* ------------------------------------------------------- a second session
\* A second persisted group, for connections that join another session: its
\* roster holds the names that join it, so that group:join never writes it,
\* and its catalog is empty.  The handler is the one of GroupJoin, run on
\* this group: socket.data, the room of its code (the open connections
\* whose socket.data holds the code) and the participant-joined emit, then
\* the films for the joiner.
OtherGroupCode == <<"B", "A", "1", "2", "3">>
OtherParticipants == <<"A", "B">>
OtherRoom == {d \in Conns : sock[d].open /\ sock[d].groupCode = OtherGroupCode}

JoinOther(c, participantName) ==
  /\ CanStart(c)
  /\ ops' = ops - 1
  /\ Includes(OtherParticipants, participantName)
  /\ sock' = [sock EXCEPT ![c].groupCode = OtherGroupCode,
                         ![c].participantName = participantName]
  /\ emitted' = {HandlerRead(Event("group:participant-joined",
                                   OtherRoom \cup {c}, c, participantName,
                                   OtherParticipants),
                             participantName, OtherParticipants, NoName)}
  /\ h' = [h EXCEPT ![c] = [Idle EXCEPT !.pc = "join_other_films",
                                         !.code = OtherGroupCode,
                                         !.name = participantName,
                                         !.parts = OtherParticipants]]
  /\ UNCHANGED <<store, registry, room, http, allCompleted>>
  /\ UNCHANGED client

JoinOtherFilms(c) ==
  /\ h[c].pc = "join_other_films"
  /\ emitted' = {[Event("group:film-added", {c}, c, NoName, <<>>)
                    EXCEPT !.full = TRUE]}
  /\ h' = [h EXCEPT ![c] = Idle]
  /\ UNCHANGED <<store, registry, room, sock, http, allCompleted, ops>>
  /\ UNCHANGED client

\* -------------------------------------------------------------- group:leave
\* getGroupParticipants(groupCode) as a list, in some order.
TrackedList(tracked) ==
  CHOOSE s \in [1..Cardinality(tracked) -> tracked] : Range(s) = tracked

\* socket.on('group:leave'): the name and the code are taken from the event
\* as sent; the name is removed from the registry, the socket leaves the
\* room, and the others are told with the registry's list.  socket.data is
\* left as it is.
GroupLeave(c, groupCode, participantName) ==
  /\ CanStart(c)
  /\ ops' = ops - 1
  /\ IF groupCode = GroupCode
       THEN /\ groupParticipants' =
                 removeParticipantFromGroup(groupParticipants, participantName)
            /\ groupSockets' = removeSocketFromGroup(groupSockets, c)
            /\ room' = room \ {c}
            /\ emitted' = {Event("group:participant-left", room \ {c}, c,
                                 participantName,
                                 TrackedList(groupParticipants'))}
       ELSE /\ emitted' = {Event("group:participant-left", {}, c,
                                 participantName, <<>>)}
            /\ UNCHANGED <<registry, room>>
  /\ UNCHANGED <<store, sock, h, http, allCompleted>>
  /\ UNCHANGED client

\* -------------------------------------------------------------- disconnect
\* removeParticipantFromGroup(groupCode, participantName);
\* removeSocketFromGroup(groupCode, socket.id);
Unregister(c, name) ==
  /\ groupParticipants' = removeParticipantFromGroup(groupParticipants, name)
  /\ groupSockets' = removeSocketFromGroup(groupSockets, c)

\* After the createdBy check: the roster write is awaited only when the name
\* is in the roster as read; otherwise the registry is cleaned at once.
DiscAfterCreator(c, name, parts, cb) ==
  IF Len(Without(parts, name)) # Len(parts)
    THEN /\ h' = [h EXCEPT ![c] = [Idle EXCEPT !.pc = "disc_roster",
                                                !.code = GroupCode,
                                                !.name = name, !.parts = parts,
                                                !.cb = cb]]
         /\ UNCHANGED registry
    ELSE /\ h' = [h EXCEPT ![c] = [Idle EXCEPT !.pc = "disc_reread",
                                                !.code = GroupCode,
                                                !.name = name, !.parts = parts,
                                                !.cb = cb]]
         /\ Unregister(c, name)

\* Mutant: the failover is decided on the effective leader instead of the
\* persisted createdBy.
Disconnect_ByEffectiveLeader(c) ==
  LET name == sock[c].participantName
      remainingParticipants == Without(participants, name)
  IN
  /\ CanStart(c)
  /\ ops' = ops - 1
  /\ sock' = [sock EXCEPT ![c] = NoData]
  /\ room' = room \ {c}
  /\ emitted' = {}
  /\ IF sock[c].groupCode = NoCode \/ name = NoName
       THEN /\ h' = [h EXCEPT ![c] = Idle]
            /\ UNCHANGED registry
       ELSE IF /\ EffectiveCreator(participants, createdBy) = name
               /\ Len(remainingParticipants) > 0
         THEN /\ h' = [h EXCEPT ![c] = [Idle EXCEPT !.pc = "disc_creator",
                                                     !.code = GroupCode,
                                                     !.name = name,
                                                     !.parts = participants,
                                                     !.cb = createdBy]]
              /\ UNCHANGED registry
         ELSE DiscAfterCreator(c, name, participants, createdBy)
  /\ UNCHANGED <<store, http, allCompleted>>
  /\ UNCHANGED client

\* socket.on('disconnect'): the transport closes (the socket has left its
\* rooms), socket.data is read, and getGroupByCode resolves.
Disconnect(c) ==
  LET name == sock[c].participantName
      remainingParticipants == Without(participants, name)
  IN
  /\ CanStart(c)
  /\ ops' = ops - 1
  /\ sock' = [sock EXCEPT ![c] = NoData]
  /\ room' = room \ {c}
  /\ emitted' = {}
  /\ IF sock[c].groupCode = NoCode \/ name = NoName
       THEN /\ h' = [h EXCEPT ![c] = Idle]
            /\ UNCHANGED registry
       ELSE IF createdBy = name /\ Len(remainingParticipants) > 0
         THEN /\ h' = [h EXCEPT ![c] = [Idle EXCEPT !.pc = "disc_creator",
                                                     !.code = GroupCode,
                                                     !.name = name,
                                                     !.parts = participants,
                                                     !.cb = createdBy]]
              /\ UNCHANGED registry
         ELSE DiscAfterCreator(c, name, participants, createdBy)
  /\ UNCHANGED <<store, http, allCompleted>>
  /\ UNCHANGED client

\* Mutant: the new creator is the first name of the roster as read, the
\* departing one included.
DiscCreator_FirstOfRoster(c, ok) ==
  LET newCreator == h[c].parts[1] IN
  /\ h[c].pc = "disc_creator"
  /\ createdBy' = IF ok THEN newCreator ELSE createdBy
  /\ emitted' = IF ok
                  THEN {HandlerRead(Event("group:creator-changed", room, c,
                                          newCreator, <<>>),
                                    h[c].name, h[c].parts, h[c].cb)}
                  ELSE {}
  /\ DiscAfterCreator(c, h[c].name, h[c].parts, h[c].cb)
  /\ UNCHANGED <<participants, films, votes, room, sock, http, allCompleted, ops>>
  /\ UNCHANGED client

\* await updateGroup(group.id, { createdBy: newCreator });
\* io.to(groupCode).emit('group:creator-changed', { newCreator })
DiscCreator(c, ok) ==
  LET newCreator == Without(h[c].parts, h[c].name)[1] IN
  /\ h[c].pc = "disc_creator"
  /\ createdBy' = IF ok THEN newCreator ELSE createdBy
  /\ emitted' = IF ok
                  THEN {HandlerRead(Event("group:creator-changed", room, c,
                                          newCreator, <<>>),
                                    h[c].name, h[c].parts, h[c].cb)}
                  ELSE {}
  /\ DiscAfterCreator(c, h[c].name, h[c].parts, h[c].cb)
  /\ UNCHANGED <<participants, films, votes, room, sock, http, allCompleted, ops>>
  /\ UNCHANGED client

\* await updateGroup(group.id, { participants: updatedParticipants });
\* then the registry is cleaned.
DiscRoster(c, ok) ==
  LET updatedParticipants == Without(h[c].parts, h[c].name) IN
  /\ h[c].pc = "disc_roster"
  /\ participants' = IF ok THEN updatedParticipants ELSE participants
  /\ Unregister(c, h[c].name)
  /\ h' = [h EXCEPT ![c].pc = "disc_reread"]
  /\ emitted' = {}
  /\ UNCHANGED <<createdBy, films, votes, room, sock, http, allCompleted, ops>>
  /\ UNCHANGED client

\* Mutant: the event carries the roster the handler read at its start.
DiscReread_RosterAsRead(c) ==
  /\ h[c].pc = "disc_reread"
  /\ emitted' = {Event("group:participant-left", room \ {c}, c, h[c].name,
                       h[c].parts)}
  /\ h' = [h EXCEPT ![c] = Idle]
  /\ UNCHANGED <<store, registry, room, sock, http, allCompleted, ops>>
  /\ UNCHANGED client

\* const updatedGroup = await getGroupByCode(groupCode);
\* socket.to(groupCode).emit('group:participant-left', ...)
DiscReread(c) ==
  /\ h[c].pc = "disc_reread"
  /\ emitted' = {Event("group:participant-left", room \ {c}, c, h[c].name,
                       participants)}
  /\ h' = [h EXCEPT ![c] = Idle]
  /\ UNCHANGED <<store, registry, room, sock, http, allCompleted, ops>>
  /\ UNCHANGED client

\* ------------------------------------------------------------ HTTP routes
HttpFree == http.pc = "idle" /\ ops > 0

\* POST /api/groups-firebase/join: validation, getGroupByCode, membership test.
HttpJoin(code, participantName) ==
  LET sanitizedCode == SanitizeCode(code) IN
  /\ HttpFree
  /\ ops' = ops - 1
  /\ emitted' = {}
  /\ IF \/ code = <<>>
        \/ participantName = NoName
        \/ Len(sanitizedCode) = 0
        \/ ~IsValidCode(sanitizedCode)
        \/ sanitizedCode # GroupCode
        \/ Includes(participants, participantName)
       THEN http' = HttpIdle
       ELSE http' = [pc |-> "join_write", name |-> participantName,
                     parts |-> participants]
  /\ UNCHANGED <<store, registry, room, sock, h, allCompleted>>
  /\ UNCHANGED client

\* await updateGroup(group.id, { participants: [...group.participants, name] })
HttpJoinWrite(ok) ==
  /\ http.pc = "join_write"
  /\ participants' = IF ok THEN Append(http.parts, http.name) ELSE participants
  /\ http' = HttpIdle
  /\ emitted' = {}
  /\ UNCHANGED <<createdBy, films, votes, registry, room, sock, h,
                 allCompleted, ops>>
  /\ UNCHANGED client

\* POST /api/groups-firebase/[id]/transfer-creator: getGroupByCode and the
\* membership test of the new creator.
TransferCreator(code, newCreator) ==
  /\ HttpFree
  /\ ops' = ops - 1
  /\ emitted' = {}
  /\ IF \/ Trim(ToUpperCase(code)) # GroupCode
        \/ newCreator = NoName
        \/ ~Includes(participants, newCreator)
       THEN http' = HttpIdle
       ELSE http' = [pc |-> "transfer_write", name |-> newCreator,
                     parts |-> participants]
  /\ UNCHANGED <<store, registry, room, sock, h, allCompleted>>
  /\ UNCHANGED client

\* await updateGroup(group.id, { createdBy: newCreator })
TransferCreatorWrite(ok) ==
  /\ http.pc = "transfer_write"
  /\ createdBy' = IF ok THEN http.name ELSE createdBy
  /\ http' = HttpIdle
  /\ emitted' = {}
  /\ UNCHANGED <<participants, films, votes, registry, room, sock, h,
                 allCompleted, ops>>
  /\ UNCHANGED client

\* ----------------------------------------------------------------- catalog
FilmIdInputs == KinopoiskIds \cup {0}

CatalogIds(fs) == {fs[i].kinopoiskId : i \in 1..Len(fs)}

\* Mutant: the error addFilmToGroup throws for a repeated kinopoiskId is
\* swallowed and the film is broadcast as added.
FilmAdd_SwallowsAlreadyAdded(c, groupCode, kinopoiskId, ok) ==
  LET sanitizedCode == SanitizeCode(groupCode)
      addedBy == IF sock[c].participantName # NoName
                   THEN sock[c].participantName ELSE DefaultAddedBy
      newFilm == FilmRow(ops, kinopoiskId, addedBy)
  IN
  /\ CanStart(c)
  /\ ops' = ops - 1
  /\ IF \/ groupCode = <<>>
        \/ kinopoiskId = 0
        \/ ~IsValidCode(sanitizedCode)
       THEN /\ Reject(c)
            /\ UNCHANGED films
       ELSE IF sanitizedCode # GroupCode \/ ~ok
       THEN /\ RejectAfterStore(c)
            /\ UNCHANGED films
       ELSE /\ films' = IF FilmAlreadyAdded(films, kinopoiskId)
                          THEN films ELSE Append(films, newFilm)
            /\ emitted' = {[Event("group:film-added", room, c, NoName, <<>>)
                              EXCEPT !.films = <<newFilm>>]}
            /\ UNCHANGED h
  /\ UNCHANGED <<participants, createdBy, votes, registry, room, sock, http,
                 allCompleted>>
  /\ UNCHANGED client

\* socket.on('film:add'): validation, getGroupByCode (the group is never
\* deleted, so this read cannot change under the handler), addFilmToGroup
\* and the broadcast.  The Store refuses a repeated kinopoiskId by throwing.
\* The Store gives the new film a fresh document id: the number of events
\* still to be accepted differs at every film:add and stands for it.
FilmAdd(c, groupCode, kinopoiskId, ok) ==
  LET sanitizedCode == SanitizeCode(groupCode)
      addedBy == IF sock[c].participantName # NoName
                   THEN sock[c].participantName ELSE DefaultAddedBy
      newFilm == FilmRow(ops, kinopoiskId, addedBy)
  IN
  /\ CanStart(c)
  /\ ops' = ops - 1
  /\ IF \/ groupCode = <<>>
        \/ kinopoiskId = 0
        \/ ~IsValidCode(sanitizedCode)
       THEN /\ Reject(c)
            /\ UNCHANGED films
       ELSE IF sanitizedCode # GroupCode \/ ~ok
       THEN /\ RejectAfterStore(c)
            /\ UNCHANGED films
       ELSE IF FilmAlreadyAdded(films, kinopoiskId)
       THEN /\ emitted' = {[ErrorTo(c) EXCEPT !.rdStore = TRUE,
                                              !.message = AlreadyAdded]}
            /\ h' = [h EXCEPT ![c] = Idle]
            /\ UNCHANGED films
       ELSE /\ films' = Append(films, newFilm)
            /\ emitted' = {[Event("group:film-added", room, c, NoName, <<>>)
                              EXCEPT !.films = <<newFilm>>]}
            /\ UNCHANGED h
  /\ UNCHANGED <<participants, createdBy, votes, registry, room, sock, http,
                 allCompleted>>
  /\ UNCHANGED client

\* POST /api/groups-firebase/[id]/films: validation, getGroupByCode with the
\* code as sent, addFilmToGroup; nothing is broadcast.
PostFilm(code, kinopoiskId, ok) ==
  /\ HttpFree
  /\ ops' = ops - 1
  /\ emitted' = {}
  /\ films' = IF /\ kinopoiskId > 0
                 /\ code = GroupCode
                 /\ ~FilmAlreadyAdded(films, kinopoiskId)
                 /\ ok
                THEN Append(films, FilmRow(ops, kinopoiskId, HttpAddedBy))
                ELSE films
  /\ UNCHANGED <<participants, createdBy, votes, registry, room, sock, h, http,
                 allCompleted>>
  /\ UNCHANGED client

\* The document ids a client may send with film:remove: those of the catalog,
\* none, and one of no film.
RemoveIdInputs(fs) == {fs[i].id : i \in 1..Len(fs)} \cup {NoFilmId, UnknownFilmId}

\* films.filter(f => f.id !== filmId): deleteFilmById on the catalog.
RECURSIVE WithoutFilm(_, _)
WithoutFilm(fs, id) ==
  IF fs = <<>> THEN <<>>
  ELSE IF Head(fs).id = id THEN WithoutFilm(Tail(fs), id)
       ELSE <<Head(fs)>> \o WithoutFilm(Tail(fs), id)

\* socket.on('film:remove'): validation and getGroupByCode.
FilmRemove(c, groupCode, filmId) ==
  LET sanitizedCode == SanitizeCode(groupCode) IN
  /\ CanStart(c)
  /\ ops' = ops - 1
  /\ IF \/ groupCode = <<>>
        \/ filmId = NoFilmId
        \/ ~IsValidCode(sanitizedCode)
       THEN Reject(c)
       ELSE IF sanitizedCode # GroupCode
       THEN RejectAfterStore(c)
       ELSE /\ emitted' = {}
            /\ h' = [h EXCEPT ![c] =
                       [Idle EXCEPT !.pc = "remove_films",
                                    !.code = sanitizedCode,
                                    !.film = FilmRow(filmId, 0, NoName)]]
  /\ UNCHANGED <<store, registry, room, sock, http, allCompleted>>
  /\ UNCHANGED client

\* Mutant: the film is deleted for any requester.
RemoveFilms_AnyRequester(c) ==
  LET found == {i \in 1..Len(films) : films[i].id = h[c].film.id} IN
  /\ h[c].pc = "remove_films"
  /\ IF found = {}
       THEN RejectAfterStore(c)
       ELSE LET film == films[CHOOSE i \in found : TRUE] IN
                   /\ emitted' = {}
                   /\ h' = [h EXCEPT ![c].pc = "remove_delete",
                                     ![c].name = sock[c].participantName,
                                     ![c].film = film]
  /\ UNCHANGED <<store, registry, room, sock, http, allCompleted, ops>>
  /\ UNCHANGED client

\* const films = await getFilmsByGroup(group.id); films.find(f => f.id ===
\* filmId); the film must exist and film.addedBy must be the requester's
\* socket.data.participantName.
RemoveFilms(c) ==
  LET found == {i \in 1..Len(films) : films[i].id = h[c].film.id} IN
  /\ h[c].pc = "remove_films"
  /\ IF found = {}
       THEN RejectAfterStore(c)
       ELSE LET film == films[CHOOSE i \in found : TRUE] IN
            IF film.addedBy # sock[c].participantName
              THEN /\ emitted' = {[ErrorTo(c) EXCEPT !.rdStore = TRUE,
                                                     !.message = NotYourFilm]}
                   /\ h' = [h EXCEPT ![c] = Idle]
              ELSE /\ emitted' = {}
                   /\ h' = [h EXCEPT ![c].pc = "remove_delete",
                                     ![c].name = sock[c].participantName,
                                     ![c].film = film]
  /\ UNCHANGED <<store, registry, room, sock, http, allCompleted, ops>>
  /\ UNCHANGED client

\* await deleteFilmById(filmId); io.to(sanitizedCode).emit('group:film-removed')
RemoveDelete(c, ok) ==
  /\ h[c].pc = "remove_delete"
  /\ IF ok
       THEN /\ films' = WithoutFilm(films, h[c].film.id)
            /\ emitted' = {[Event("group:film-removed", room, c, NoName, <<>>)
                              EXCEPT !.films = <<h[c].film>>,
                                     !.rdName = h[c].name,
                                     !.rdStore = TRUE]}
            /\ h' = [h EXCEPT ![c] = Idle]
       ELSE /\ RejectAfterStore(c)
            /\ UNCHANGED films
  /\ UNCHANGED <<participants, createdBy, votes, registry, room, sock, http,
                 allCompleted, ops>>
  /\ UNCHANGED client

\* ------------------------------------------------------------------- votes
\* One entry of a posted batch: { filmId, vote }.
VoteEntry(filmId, vote) == [filmId |-> filmId, vote |-> vote]

\* The batches a client posts after it has voted: one verdict per film, for
\* some of the films, in catalog order.
VoteBatches ==
  {<<VoteEntry(f, v)>> : f \in KinopoiskIds, v \in Verdicts}
  \cup {<<VoteEntry(1, v), VoteEntry(2, w)>> : v \in Verdicts, w \in Verdicts}

\* Any batch of one or two entries: repeated films, a filmId that is not
\* positive, a vote that is neither like nor dislike.
AnyEntries ==
  {VoteEntry(f, v) : f \in KinopoiskIds, v \in Verdicts}
  \cup {VoteEntry(0, "like"), VoteEntry(1, "maybe")}

VoteLists ==
  {<<e>> : e \in AnyEntries} \cup {<<e1, e2>> : e1 \in AnyEntries, e2 \in AnyEntries}

\* votes.filter(...): filmId is a positive number and vote is like or dislike.
IsValidVote(e) == e.filmId > 0 /\ e.vote \in Verdicts

\* participantId: vote.participantId ? vote.participantId.trim().slice(0, 50)
\* : 'Участник', after the filter has trimmed it.
PersistedVoter(p) ==
  IF SanitizeName(p) = NoName THEN DefaultAddedBy ELSE SanitizeName(p)

\* validVotes.map(...): the rows handed to addVotes, in the order posted.
BatchRows(p, b) ==
  LET validVotes == SelectSeq(b, IsValidVote) IN
  [i \in 1..Len(validVotes) |->
     [participantId |-> PersistedVoter(p), filmId |-> validVotes[i].filmId,
      vote |-> validVotes[i].vote]]

\* Mutant: every row is inserted, whatever the Store already holds.
RECURSIVE AddVotes_InsertOnly(_, _)
AddVotes_InsertOnly(vs, rows) ==
  IF rows = <<>> THEN vs
  ELSE AddVotes_InsertOnly(vs \cup {Head(rows)}, Tail(rows))

\* lib/database addVotes: the rows are written in order, one row per (film,
\* participant): a row for a pair that already has one replaces it.
RECURSIVE AddVotes(_, _)
AddVotes(vs, rows) ==
  IF rows = <<>> THEN vs
  ELSE LET r == Head(rows)
           others == {v \in vs : ~(v.participantId = r.participantId
                                    /\ v.filmId = r.filmId)}
       IN AddVotes(others \cup {r}, Tail(rows))

\* POST /api/groups-firebase/[id]/votes: code normalisation, getGroupByCode,
\* the filter of valid votes (an empty result is refused), addVotes and the
\* { success: true } response, which no connection receives.
PostVotes(code, p, b, ok) ==
  /\ HttpFree
  /\ ops' = ops - 1
  /\ IF /\ Trim(ToUpperCase(code)) = GroupCode
        /\ BatchRows(p, b) # <<>>
        /\ ok
       THEN /\ votes' = AddVotes(votes, BatchRows(p, b))
            /\ emitted' = {[Event("http:votes-saved", {}, NoConn,
                                   PersistedVoter(p), <<>>)
                              EXCEPT !.rdBatch = BatchRows(p, b),
                                     !.rdStore = TRUE]}
       ELSE /\ votes' = votes
            /\ emitted' = {}
  /\ UNCHANGED <<participants, createdBy, films, registry, room, sock, h, http,
                 allCompleted>>
  /\ UNCHANGED client

\* socket.on('voting:vote'): the vote is relayed to the other connections of
\* the room named by the code as sent; nothing is persisted.
VotingVote(c, groupCode, filmId, vote) ==
  /\ CanStart(c)
  /\ ops' = ops - 1
  /\ emitted' = {[Event("voting:vote-cast",
                         IF groupCode = GroupCode THEN room \ {c} ELSE {},
                         c, sock[c].participantName, <<>>)
                    EXCEPT !.filmId = filmId, !.vote = vote]}
  /\ UNCHANGED <<store, registry, room, sock, h, http, allCompleted>>
  /\ UNCHANGED client

\* ----------------------------------------------------- leader-gated actions
\* socket.on('voting:start'): getGroupByCode(groupCode) with the code as sent,
\* the effective-creator gate, and the broadcast.
VotingStart(c, groupCode) ==
  /\ CanStart(c)
  /\ ops' = ops - 1
  /\ IF \/ groupCode # GroupCode
        \/ EffectiveCreator(participants, createdBy) = NoName
        \/ sock[c].participantName # EffectiveCreator(participants, createdBy)
       THEN RejectAfterStore(c)
       ELSE /\ emitted' = {[HandlerRead(Event("voting:started", room, c,
                                                NoName, <<>>),
                                          sock[c].participantName,
                                          participants, createdBy)
                              EXCEPT !.films = films]}
            /\ UNCHANGED h
  /\ UNCHANGED <<store, registry, room, sock, http, allCompleted>>
  /\ UNCHANGED client

\* Mutant: the reset is accepted from any requester that has a name.
GroupReset_NoGate(c, groupCode) ==
  LET requester == sock[c].participantName IN
  /\ CanStart(c)
  /\ ops' = ops - 1
  /\ IF groupCode = <<>> \/ requester = NoName
       THEN /\ emitted' = {}
            /\ UNCHANGED h
       ELSE IF groupCode # GroupCode
         THEN RejectAfterStore(c)
         ELSE /\ emitted' = {}
              /\ h' = [h EXCEPT ![c] = [Idle EXCEPT !.pc = "reset_films",
                                                     !.code = groupCode,
                                                     !.name = requester,
                                                     !.parts = participants,
                                                     !.cb = createdBy]]
  /\ UNCHANGED <<store, registry, room, sock, http, allCompleted>>
  /\ UNCHANGED client

\* socket.on('group:reset'): the silent return, getGroupByCode and the gate.
GroupReset(c, groupCode) ==
  LET requester == sock[c].participantName IN
  /\ CanStart(c)
  /\ ops' = ops - 1
  /\ IF groupCode = <<>> \/ requester = NoName
       THEN /\ emitted' = {}
            /\ UNCHANGED h
       ELSE IF \/ groupCode # GroupCode
               \/ EffectiveCreator(participants, createdBy) = NoName
               \/ requester # EffectiveCreator(participants, createdBy)
         THEN RejectAfterStore(c)
         ELSE /\ emitted' = {}
              /\ h' = [h EXCEPT ![c] = [Idle EXCEPT !.pc = "reset_films",
                                                     !.code = groupCode,
                                                     !.name = requester,
                                                     !.parts = participants,
                                                     !.cb = createdBy]]
  /\ UNCHANGED <<store, registry, room, sock, http, allCompleted>>
  /\ UNCHANGED client

\* Mutant: the films are not deleted.
ResetDeleteFilms_KeepsFilms(c, ok) ==
  /\ h[c].pc = "reset_films"
  /\ IF ok
       THEN /\ h' = [h EXCEPT ![c].pc = "reset_votes"]
            /\ emitted' = {}
            /\ UNCHANGED films
       ELSE /\ RejectAfterStore(c)
            /\ UNCHANGED films
  /\ UNCHANGED <<participants, createdBy, votes, registry, room, sock, http,
                 allCompleted, ops>>
  /\ UNCHANGED client

\* await deleteFilmsByGroup(group.id); a failure aborts with an error.
ResetDeleteFilms(c, ok) ==
  /\ h[c].pc = "reset_films"
  /\ IF ok
       THEN /\ films' = <<>>
            /\ h' = [h EXCEPT ![c].pc = "reset_votes"]
            /\ emitted' = {}
       ELSE /\ RejectAfterStore(c)
            /\ UNCHANGED films
  /\ UNCHANGED <<participants, createdBy, votes, registry, room, sock, http,
                 allCompleted, ops>>
  /\ UNCHANGED client

\* await deleteVotesByGroup(group.id); io.to(groupCode).emit('group:reset')
ResetDeleteVotes(c, ok) ==
  /\ h[c].pc = "reset_votes"
  /\ IF ok
       THEN /\ votes' = {}
            /\ emitted' = {HandlerRead(Event("group:reset", room, c, NoName,
                                          <<>>),
                                    h[c].name, h[c].parts, h[c].cb)}
            /\ h' = [h EXCEPT ![c] = Idle]
            /\ allCompleted' = 0
       ELSE /\ RejectAfterStore(c)
            /\ UNCHANGED <<votes, allCompleted>>
  /\ UNCHANGED <<participants, createdBy, films, registry, room, sock, http,
                 ops>>
  /\ UNCHANGED client

\* -------------------------------------------------------- voting:completed
\* socket.on('voting:completed'): getGroupByCode; an unknown group or an
\* empty roster ends the handler without any event.
VotingCompleted(c, groupCode, participantName) ==
  /\ CanStart(c)
  /\ ops' = ops - 1
  /\ emitted' = {}
  /\ IF groupCode # GroupCode \/ Len(participants) = 0
       THEN UNCHANGED h
       ELSE h' = [h EXCEPT ![c] = [Idle EXCEPT !.pc = "completed_votes",
                                                !.code = groupCode,
                                                !.name = participantName,
                                                !.parts = participants,
                                                !.cb = createdBy]]
  /\ UNCHANGED <<store, registry, room, sock, http, allCompleted>>
  /\ UNCHANGED client

\* const votes = await getVotesByGroup(group.id);
CompletedVotes(c) ==
  /\ h[c].pc = "completed_votes"
  /\ h' = [h EXCEPT ![c].pc = "completed_films", ![c].vts = votes]
  /\ emitted' = {}
  /\ UNCHANGED <<store, registry, room, sock, http, allCompleted, ops>>
  /\ UNCHANGED client

\* Mutant: the reporter named by the client counts as complete, and the
\* names tracked as present are counted with the roster.
CompletedFilms_TrustsReporter(c) ==
  LET allParticipants ==
        h[c].parts \o TrackedList(groupParticipants \ Range(h[c].parts))
      completedParticipants ==
        CompletedParticipants(allParticipants,
          h[c].vts \cup {[participantId |-> h[c].name,
                          filmId |-> films[i].kinopoiskId, vote |-> "like"] :
                            i \in 1..Len(films)},
          films)
      progress ==
        [Event("voting:completed", room, c, h[c].name, <<>>)
           EXCEPT !.count = Len(completedParticipants),
                  !.total = Len(allParticipants),
                  !.rdParts = h[c].parts, !.rdVotes = h[c].vts,
                  !.rdFilms = films]
      quorum == Len(completedParticipants) = Len(allParticipants)
                /\ Len(allParticipants) > 0
      done ==
        [Event("voting:all-completed", room, c, NoName, <<>>)
           EXCEPT !.results = calculateResults(h[c].vts, films, allParticipants),
                  !.rdParts = h[c].parts, !.rdVotes = h[c].vts,
                  !.rdFilms = films]
  IN
  /\ h[c].pc = "completed_films"
  /\ h' = [h EXCEPT ![c] = Idle]
  /\ IF Len(films) = 0
       THEN /\ emitted' = {}
            /\ UNCHANGED allCompleted
       ELSE IF quorum
         THEN /\ emitted' = {progress, done}
              /\ allCompleted' = allCompleted + 1
         ELSE /\ emitted' = {progress}
              /\ UNCHANGED allCompleted
  /\ UNCHANGED <<store, registry, room, sock, http, ops>>
  /\ UNCHANGED client

\* const films = await getFilmsByGroup(group.id); the quorum computation, the
\* progress broadcast and, at quorum, the results broadcast.
CompletedFilms(c) ==
  LET allParticipants == h[c].parts
      completedParticipants ==
        CompletedParticipants(allParticipants, h[c].vts, films)
      progress ==
        [Event("voting:completed", room, c, h[c].name, <<>>)
           EXCEPT !.count = Len(completedParticipants),
                  !.total = Len(allParticipants),
                  !.rdParts = allParticipants, !.rdVotes = h[c].vts,
                  !.rdFilms = films]
      quorum == Len(completedParticipants) = Len(allParticipants)
                /\ Len(allParticipants) > 0
      done ==
        [Event("voting:all-completed", room, c, NoName, <<>>)
           EXCEPT !.results = calculateResults(h[c].vts, films, allParticipants),
                  !.rdParts = allParticipants, !.rdVotes = h[c].vts,
                  !.rdFilms = films]
  IN
  /\ h[c].pc = "completed_films"
  /\ h' = [h EXCEPT ![c] = Idle]
  /\ IF Len(films) = 0
       THEN /\ emitted' = {}
            /\ UNCHANGED allCompleted
       ELSE IF quorum
         THEN /\ emitted' = {progress, done}
              /\ allCompleted' = allCompleted + 1
         ELSE /\ emitted' = {progress}
              /\ UNCHANGED allCompleted
  /\ UNCHANGED <<store, registry, room, sock, http, ops>>
  /\ UNCHANGED client

\* ------------------------------------------------------------ browser client
\* useSocket.ts handleFilmAdded: a full list replaces the local list; a
\* single film is appended unless its kinopoiskId is already there
\* (prev.some on a null list throws and the list stays null).
handleFilmAdded(prev, e) ==
  IF e.full THEN ListOf(e.films)
  ELSE IF ~prev.isList THEN prev
  ELSE IF \E i \in 1..Len(prev.items) :
            prev.items[i].kinopoiskId = e.films[1].kinopoiskId
    THEN prev
    ELSE ListOf(Append(prev.items, e.films[1]))

\* useSocket.ts handleFilmRemoved: setFilms(data.films), and data.films is
\* null in every group:film-removed the server sends.
handleFilmRemoved(prev, e) == NullList

\* The group page's handleFilmRemoved:
\* setInitialFilms(prev => prev.filter(f => f.id !== data.filmId))
PageFilmRemoved(prev, e) == WithoutFilm(prev, e.films[1].id)

\* merged.push(film) for every film of the hook's list whose kinopoiskId is
\* not in the page's list yet.
RECURSIVE MergeFilms(_, _)
MergeFilms(merged, fs) ==
  IF fs = <<>> THEN merged
  ELSE IF \E i \in 1..Len(merged) : merged[i].kinopoiskId = Head(fs).kinopoiskId
    THEN MergeFilms(merged, Tail(fs))
    ELSE MergeFilms(Append(merged, Head(fs)), Tail(fs))

\* The page's effect on [films, initialFilms.length]: a non-empty list of the
\* hook is merged into initialFilms, an empty one empties it.  With a null
\* list `films.length` throws while the page renders and the effect does
\* not run.
PageEffect(initialFilms, hookFilms) ==
  IF ~hookFilms.isList THEN initialFilms
  ELSE IF Len(hookFilms.items) > 0 THEN MergeFilms(initialFilms, hookFilms.items)
  ELSE <<>>

\* The events of the last step that connection c has not handled yet.
Pending(c) ==
  /\ sock[c].open
  /\ client[c].got # emitted
  /\ \E e \in emitted : c \in e.to

\* The client of c handles the events the last step sent to it: the hook's
\* and the page's handlers for the film events run, then the page's effect.
ClientReceive(c) ==
  LET added == {e \in emitted : c \in e.to /\ e.ev = "group:film-added"}
      removed == {e \in emitted : c \in e.to /\ e.ev = "group:film-removed"}
      hookFilms ==
        IF added # {} THEN handleFilmAdded(client[c].films, CHOOSE e \in added : TRUE)
        ELSE IF removed # {}
          THEN handleFilmRemoved(client[c].films, CHOOSE e \in removed : TRUE)
          ELSE client[c].films
      pageFilms ==
        IF removed # {}
          THEN PageFilmRemoved(client[c].initialFilms, CHOOSE e \in removed : TRUE)
          ELSE client[c].initialFilms
  IN
  /\ Pending(c)
  /\ client' = [client EXCEPT ![c].films = hookFilms,
                             ![c].initialFilms =
                               IF hookFilms = client[c].films
                                 THEN pageFilms
                                 ELSE PageEffect(pageFilms, hookFilms),
                             ![c].got = emitted]
  /\ UNCHANGED <<store, registry, room, sock, h, http, emitted, allCompleted,
                 ops>>

\* ------------------------------------------------- client reconnection
\* socket.io-client as `import { io, Socket }` and the typed Socket give it
\* (version 3 and later): when the transport is (re)established the Socket
\* emits 'connect'; 'reconnect' is emitted by the Manager (socket.io), on
\* which the hook registers nothing.
SocketEmits == {"connect"}
ManagerEmits == {"reconnect"}

\* joinGroup: if (socket.connected) socket.emit('group:join',
\*   { groupCode, participantName: savedName })
joinGroup(cl) == IF cl.isConnected THEN [cl EXCEPT !.joinEmitted = TRUE] ELSE cl

\* handleReconnect, registered with socket.on('reconnect', ...)
handleReconnect(cl) == joinGroup(cl)

\* The effect of useGroupSocket: the nickname is in sessionStorage, the
\* handlers are registered, and the group is joined at once on a connected
\* socket or on the next 'connect' otherwise (socket.once).
GroupSocketEffect(c, name) ==
  LET cl == [client[c] EXCEPT !.mounted = TRUE, !.savedName = name] IN
  /\ ~client[c].mounted
  /\ client' = [client EXCEPT ![c] =
                  IF cl.isConnected THEN joinGroup(cl)
                  ELSE [cl EXCEPT !.connectOnce = TRUE]]
  /\ UNCHANGED <<store, registry, room, sock, h, http, emitted, allCompleted,
                 ops>>

\* The client's socket learns that the transport is gone.
ClientDisconnected(c) ==
  /\ ~sock[c].open
  /\ client[c].isConnected
  /\ client' = [client EXCEPT ![c].isConnected = FALSE,
                             ![c].reconnected = FALSE,
                             ![c].joinEmitted = FALSE]
  /\ UNCHANGED <<store, registry, room, sock, h, http, emitted, allCompleted,
                 ops>>

\* The Manager has reconnected: the Socket emits its events and the
\* listeners registered on the Socket run (the once-listener of 'connect'
\* if it is still there, handleReconnect if the Socket emits 'reconnect').
ClientConnected(c) ==
  LET cl0 == [client[c] EXCEPT !.isConnected = TRUE, !.reconnected = TRUE]
      cl1 == IF cl0.connectOnce /\ "connect" \in SocketEmits
               THEN [joinGroup(cl0) EXCEPT !.connectOnce = FALSE]
               ELSE cl0
      cl2 == IF cl1.mounted /\ "reconnect" \in SocketEmits
               THEN handleReconnect(cl1)
               ELSE cl1
  IN
  /\ sock[c].open
  /\ ~client[c].isConnected
  /\ client' = [client EXCEPT ![c] = cl2]
  /\ UNCHANGED <<store, registry, room, sock, h, http, emitted, allCompleted,
                 ops>>

\* ---------------------------------------------------------------- behaviour
\* Joins, leaves and leadership.
RosterStep(codes, oks) ==
  \/ \E c \in Conns : Connect(c)
  \/ \E c \in Conns, code \in codes, n \in Names : GroupJoin(c, code, n)
  \/ \E c \in Conns, ok \in oks : JoinWrite(c, ok)
  \/ \E c \in Conns : JoinFilms(c)
  \/ \E c \in Conns : Disconnect(c)
  \/ \E c \in Conns, ok \in oks : DiscCreator(c, ok)
  \/ \E c \in Conns, ok \in oks : DiscRoster(c, ok)
  \/ \E c \in Conns : DiscReread(c)
  \/ \E code \in codes, n \in Names : HttpJoin(code, n)
  \/ \E ok \in oks : HttpJoinWrite(ok)
  \/ \E code \in codes, n \in Names : TransferCreator(code, n)
  \/ \E ok \in oks : TransferCreatorWrite(ok)

\* The leader-gated actions.
GatedStep(codes, oks) ==
  \/ \E c \in Conns, code \in codes : VotingStart(c, code)
  \/ \E c \in Conns, code \in codes : GroupReset(c, code)
  \/ \E c \in Conns, ok \in oks : ResetDeleteFilms(c, ok)
  \/ \E c \in Conns, ok \in oks : ResetDeleteVotes(c, ok)

\* Catalog and vote rows.
ContentStep(codes, kids, voters, batches, oks) ==
  \/ \E c \in Conns, code \in codes, k \in kids, ok \in oks :
       FilmAdd(c, code, k, ok)
  \/ \E code \in codes, p \in voters, b \in batches, ok \in oks :
       PostVotes(code, p, b, ok)

\* Removal of films and the HTTP route that adds one.
CatalogStep(codes, kids, oks) ==
  \/ \E code \in codes, k \in kids, ok \in oks : PostFilm(code, k, ok)
  \/ \E c \in Conns, code \in codes, f \in RemoveIdInputs(films) :
       FilmRemove(c, code, f)
  \/ \E c \in Conns : RemoveFilms(c)
  \/ \E c \in Conns, ok \in oks : RemoveDelete(c, ok)

\* Completion reports.
QuorumStep(codes, reporters) ==
  \/ \E c \in Conns, code \in codes, n \in reporters :
       VotingCompleted(c, code, n)
  \/ \E c \in Conns : CompletedVotes(c)
  \/ \E c \in Conns : CompletedFilms(c)

Next ==
  \/ RosterStep(CodeInputs, BOOLEAN)
  \/ GatedStep(CodeInputs, BOOLEAN)
  \/ ContentStep(CodeInputs, FilmIdInputs, Names, VoteBatches, BOOLEAN)
  \/ CatalogStep(CodeInputs, FilmIdInputs, BOOLEAN)
  \/ QuorumStep(CodeInputs, Names)
  \/ \E c \in Conns, code \in CodeInputs, k \in KinopoiskIds, v \in Verdicts :
       VotingVote(c, code, k, v)
  \/ \E c \in Conns, code \in CodeInputs, n \in Names : GroupLeave(c, code, n)

Spec == Init /\ [][Next]_vars

\* Roster and leadership under every interleaving of joins, disconnects, HTTP
\* joins and creator transfers, with a Store that accepts every write.
NextRoster == RosterStep({GroupCode}, {TRUE})

SpecRoster == Init /\ [][NextRoster]_vars

\* The leader-gated actions over a changing roster and a small catalog.
OneLike == {<<VoteEntry(1, "like")>>}

NextGated ==
  \/ RosterStep({GroupCode}, {TRUE})
  \/ GatedStep({GroupCode}, {TRUE})
  \/ ContentStep({GroupCode}, {1}, {"A"}, OneLike, {TRUE})

SpecGated == InitWith(MaxGatedOps) /\ [][NextGated]_vars

\* Completion reports over every catalog and every set of vote rows, with a
\* roster that HTTP joins change under the handlers.
NextQuorum ==
  \/ ContentStep({GroupCode}, KinopoiskIds, Names, VoteBatches, {TRUE})
  \/ QuorumStep({GroupCode}, Names)
  \/ \E n \in Names : HttpJoin(GroupCode, n)
  \/ HttpJoinWrite(TRUE)

SpecQuorum == InitWith(MaxQuorumOps) /\ [][NextQuorum]_vars

\* Every handler and route, with the group's code, a malformed code and the
\* code of no group, and a Store whose operations may fail, for a few events.
ErrorCodes == {GroupCode, <<"A", "B", "1", "2">>, <<"A", "B", "1", "2", "4">>}

NextErrors ==
  \/ RosterStep(ErrorCodes, BOOLEAN)
  \/ GatedStep(ErrorCodes, BOOLEAN)
  \/ ContentStep(ErrorCodes, {0, 1}, {"A"}, OneLike, BOOLEAN)
  \/ CatalogStep(ErrorCodes, {0, 1}, BOOLEAN)
  \/ QuorumStep(ErrorCodes, {"A"})
  \/ \E c \in Conns, code \in ErrorCodes : VotingVote(c, code, 1, "like")
  \/ \E c \in Conns, code \in ErrorCodes, n \in Names : GroupLeave(c, code, n)

SpecErrors == InitWith(MaxErrorOps) /\ [][NextErrors]_vars

\* The results computation on its own: every set of vote rows of two
\* participants over two films, every catalog of these films in either order,
\* and the rosters of one and of two participants.
ResultRows ==
  [participantId : {"A", "B"}, filmId : KinopoiskIds, vote : Verdicts]

Catalogs ==
  {<<>>} \cup {<<FilmRow(k, k, "A")>> : k \in KinopoiskIds}
  \cup {<<FilmRow(kl[1], kl[1], "A"), FilmRow(kl[2], kl[2], "A")>> :
          kl \in {x \in KinopoiskIds \X KinopoiskIds : x[1] # x[2]}}

Rosters == {<<"A">>, <<"A", "B">>}

InitResults ==
  /\ participants \in Rosters
  /\ createdBy = "A"
  /\ films \in Catalogs
  /\ votes \in SUBSET ResultRows
  /\ groupParticipants = {}
  /\ groupSockets = {}
  /\ room = {}
  /\ sock = [c \in Conns |-> [NoData EXCEPT !.open = TRUE]]
  /\ h = [c \in Conns |-> Idle]
  /\ http = HttpIdle
  /\ emitted = {}
  /\ allCompleted = 0
  /\ ops = 1
  /\ client = [c \in Conns |-> NewClient]

\* const results = calculateResults(votes, films, allParticipants);
\* io.to(groupCode).emit('voting:all-completed', { results })
ComputeResults ==
  /\ ops > 0
  /\ ops' = ops - 1
  /\ emitted' = {[Event("voting:all-completed", room, NoConn, NoName, <<>>)
                    EXCEPT !.results = calculateResults(votes, films,
                                                        participants),
                           !.rdParts = participants, !.rdVotes = votes,
                           !.rdFilms = films, !.rdStore = TRUE]}
  /\ UNCHANGED <<store, registry, room, sock, h, http, allCompleted>>
  /\ UNCHANGED client

SpecResults == InitResults /\ [][ComputeResults]_vars

\* Vote submissions: every batch of at most two entries, from a voter that
\* names itself with or without a leading blank or not at all, over the HTTP
\* route with a Store that may fail, and the votes relayed over the socket.
VoterInputs == {"A", " A", NoName}

NextVotes ==
  \/ \E p \in VoterInputs, b \in VoteLists, ok \in BOOLEAN :
       PostVotes(GroupCode, p, b, ok)
  \/ \E c \in Conns, k \in KinopoiskIds, v \in Verdicts :
       VotingVote(c, GroupCode, k, v)

SpecVotes == InitWith(MaxVoteOps) /\ [][NextVotes]_vars

\* The catalog under joins of two participants, film:add, the HTTP route and
\* film:remove, with a Store whose film operations may fail.
NextCatalog ==
  \/ \E c \in Conns, n \in {"A", "B"} : GroupJoin(c, GroupCode, n)
  \/ \E c \in Conns : JoinWrite(c, TRUE)
  \/ \E c \in Conns : JoinFilms(c)
  \/ \E c \in Conns, k \in FilmIdInputs, ok \in BOOLEAN :
       FilmAdd(c, GroupCode, k, ok)
  \/ CatalogStep({GroupCode}, FilmIdInputs, BOOLEAN)

SpecCatalog == InitWith(MaxCatalogOps) /\ [][NextCatalog]_vars

\* group:join with every input a client may send (missing, blank, malformed
\* and unknown codes and names) and a Store whose writes may fail, together
\* with disconnects.
JoinCodes == CodeInputs \cup {NoCode}

NextJoin ==
  \/ \E c \in Conns : Connect(c)
  \/ \E c \in Conns, code \in JoinCodes, n \in NameInputs \cup {NoName} :
       GroupJoin(c, code, n)
  \/ \E c \in Conns, ok \in BOOLEAN : JoinWrite(c, ok)
  \/ \E c \in Conns : JoinFilms(c)
  \/ \E c \in Conns : Disconnect(c)
  \/ \E c \in Conns, ok \in BOOLEAN : DiscCreator(c, ok)
  \/ \E c \in Conns, ok \in BOOLEAN : DiscRoster(c, ok)
  \/ \E c \in Conns : DiscReread(c)

SpecJoin == InitWith(MaxJoinOps) /\ [][NextJoin]_vars

\* Socket joins of two new names on their own: valid inputs, a Store that
\* accepts every write, and nothing that removes a name from the roster.
NextRace ==
  \/ \E c \in Conns, n \in {"B", "C"} : GroupJoin(c, GroupCode, n)
  \/ \E c \in Conns : JoinWrite(c, TRUE)
  \/ \E c \in Conns : JoinFilms(c)

SpecRace == InitWith(MaxRaceOps) /\ [][NextRace]_vars

\* Completion reports under any client-supplied name, with socket joins that
\* change the presence registry, one film and the votes of two participants.
Reporters == {"A", "C"}

NextReport ==
  \/ \E c \in Conns, n \in {"A", "B"} : GroupJoin(c, GroupCode, n)
  \/ \E c \in Conns : JoinWrite(c, TRUE)
  \/ \E c \in Conns : JoinFilms(c)
  \/ ContentStep({GroupCode}, {1}, {"A", "B"}, OneLike, {TRUE})
  \/ QuorumStep({GroupCode}, Reporters)

SpecReport == InitWith(MaxReportOps) /\ [][NextReport]_vars

\* film:add and the HTTP films route with every kind of kinopoiskId a client
\* may send as a number (negative, zero, positive), in a room of up to two
\* joined connections, with a Store whose film write may fail.
AnyKinopoiskIds == {-1, 0, 1}

NextFilmInput ==
  \/ \E c \in Conns, n \in {"A", "B"} : GroupJoin(c, GroupCode, n)
  \/ \E c \in Conns : JoinWrite(c, TRUE)
  \/ \E c \in Conns : JoinFilms(c)
  \/ \E c \in Conns, k \in AnyKinopoiskIds, ok \in BOOLEAN :
       FilmAdd(c, GroupCode, k, ok)
  \/ \E k \in AnyKinopoiskIds, ok \in BOOLEAN : PostFilm(GroupCode, k, ok)

SpecFilmInput == InitWith(MaxFilmOps) /\ [][NextFilmInput]_vars

\* Joins, disconnects and HTTP roster requests handled one at a time: an
\* event is accepted only when no handler and no request is in flight, so
\* every handler runs from its first step to its last with no other handler
\* running.  The Store accepts every write.
Quiet == http.pc = "idle" /\ \A c \in Conns : h[c].pc = "idle"

NextSerial ==
  \/ \E c \in Conns : Quiet /\ Connect(c)
  \/ \E c \in Conns, n \in Names : Quiet /\ GroupJoin(c, GroupCode, n)
  \/ \E c \in Conns : Quiet /\ Disconnect(c)
  \/ \E n \in Names : Quiet /\ HttpJoin(GroupCode, n)
  \/ \E n \in Names : Quiet /\ TransferCreator(GroupCode, n)
  \/ \E c \in Conns : JoinWrite(c, TRUE)
  \/ \E c \in Conns : JoinFilms(c)
  \/ \E c \in Conns : DiscCreator(c, TRUE)
  \/ \E c \in Conns : DiscRoster(c, TRUE)
  \/ \E c \in Conns : DiscReread(c)
  \/ HttpJoinWrite(TRUE)
  \/ TransferCreatorWrite(TRUE)

SpecSerial == InitWith(MaxSerialOps) /\ [][NextSerial]_vars

\* The socket events that carry a group code, with every code a client may
\* send (the group's, one that needs trimming and uppercasing, a malformed
\* one, one of no group, none), and a Store that accepts every operation.
NextCodes ==
  \/ GatedStep(JoinCodes, {TRUE})
  \/ QuorumStep(JoinCodes, {"A"})
  \/ \E c \in Conns, code \in JoinCodes : FilmAdd(c, code, 1, TRUE)
  \/ \E c \in Conns, code \in JoinCodes, f \in RemoveIdInputs(films) :
       FilmRemove(c, code, f)
  \/ \E c \in Conns : RemoveFilms(c)
  \/ \E c \in Conns : RemoveDelete(c, TRUE)
  \/ \E c \in Conns, code \in JoinCodes, n \in {"A", "B"} :
       GroupJoin(c, code, n)
  \/ \E c \in Conns : JoinWrite(c, TRUE)
  \/ \E c \in Conns : JoinFilms(c)

SpecCodes == InitWith(MaxCodeOps) /\ [][NextCodes]_vars

\* The catalog as the browser clients see it: joins, film:add and
\* film:remove with a Store that accepts every operation; the server goes on
\* only when every connection has handled the events of the last step.
AllReceived == \A c \in Conns : ~Pending(c)

NextClient ==
  \/ \E c \in Conns, n \in {"A", "B"} :
       AllReceived /\ GroupJoin(c, GroupCode, n)
  \/ \E c \in Conns : AllReceived /\ JoinWrite(c, TRUE)
  \/ \E c \in Conns : AllReceived /\ JoinFilms(c)
  \/ \E c \in Conns, k \in KinopoiskIds :
       AllReceived /\ FilmAdd(c, GroupCode, k, TRUE)
  \/ \E c \in Conns, f \in RemoveIdInputs(films) :
       AllReceived /\ FilmRemove(c, GroupCode, f)
  \/ \E c \in Conns : AllReceived /\ RemoveFilms(c)
  \/ \E c \in Conns : AllReceived /\ RemoveDelete(c, TRUE)
  \/ \E c \in Conns : ClientReceive(c)

SpecClient == InitWith(MaxClientOps) /\ [][NextClient]_vars

\* Transport drops and reconnections with the browser client that drives the
\* joins: the server handles a group:join of a connection when its client has
\* emitted one on the current connection and the socket has not joined yet;
\* the Manager reconnects only after the client has seen the drop.  The
\* Manager keeps reconnecting (reconnectionAttempts: Infinity), events
\* reach their listeners and Store calls return, so these steps are fair;
\* transport drops and page loads are not.
MountNames == {"A", "B"}

ServerJoin(c) ==
  /\ client[c].joinEmitted
  /\ sock[c].groupCode = NoCode
  /\ GroupJoin(c, GroupCode, client[c].savedName)

Reconnection(c) == ~client[c].isConnected /\ Connect(c)

NextReconnect ==
  \/ \E c \in Conns, n \in MountNames : GroupSocketEffect(c, n)
  \/ \E c \in Conns : ClientDisconnected(c)
  \/ \E c \in Conns : ClientConnected(c)
  \/ \E c \in Conns : Reconnection(c)
  \/ \E c \in Conns : ServerJoin(c)
  \/ \E c \in Conns : JoinWrite(c, TRUE)
  \/ \E c \in Conns : JoinFilms(c)
  \/ \E c \in Conns : Disconnect(c)
  \/ \E c \in Conns : DiscCreator(c, TRUE)
  \/ \E c \in Conns : DiscRoster(c, TRUE)
  \/ \E c \in Conns : DiscReread(c)

FairReconnect ==
  /\ \A c \in Conns : WF_vars(ClientDisconnected(c))
  /\ \A c \in Conns : WF_vars(ClientConnected(c))
  /\ \A c \in Conns : WF_vars(Reconnection(c))
  /\ \A c \in Conns : WF_vars(ServerJoin(c))
  /\ \A c \in Conns : WF_vars(JoinWrite(c, TRUE))
  /\ \A c \in Conns : WF_vars(JoinFilms(c))
  /\ \A c \in Conns : WF_vars(DiscCreator(c, TRUE))
  /\ \A c \in Conns : WF_vars(DiscRoster(c, TRUE))
  /\ \A c \in Conns : WF_vars(DiscReread(c))

SpecReconnect ==
  InitWith(MaxReconnectOps) /\ [][NextReconnect]_vars /\ FairReconnect

\* Two participants leaving: the group after B's HTTP join (roster A, B and
\* a third member C, creator A), one connection per departing participant,
\* each joining under its own name and then dropping, with a Store that
\* accepts every write.  A connection drops only after it has joined and
\* never reconnects, so a closed connection with no handler in flight is a
\* participant whose disconnect has been handled to its end.
TabName == [c \in Conns |-> IF c = "s1" THEN "A" ELSE "B"]

InitDepart ==
  /\ participants = <<"A", "B", "C">>
  /\ createdBy = "A"
  /\ films = <<>>
  /\ votes = {}
  /\ groupParticipants = {}
  /\ groupSockets = {}
  /\ room = {}
  /\ sock = [c \in Conns |-> [NoData EXCEPT !.open = TRUE]]
  /\ h = [c \in Conns |-> Idle]
  /\ http = HttpIdle
  /\ emitted = {}
  /\ allCompleted = 0
  /\ ops = MaxDepartOps
  /\ client = [c \in Conns |-> NewClient]

JoinedDrop(c) == c \in room /\ Disconnect(c)

NextDepart ==
  \/ \E c \in Conns : GroupJoin(c, GroupCode, TabName[c])
  \/ \E c \in Conns : JoinFilms(c)
  \/ \E c \in Conns : JoinedDrop(c)
  \/ \E c \in Conns : DiscCreator(c, TRUE)
  \/ \E c \in Conns : DiscRoster(c, TRUE)
  \/ \E c \in Conns : DiscReread(c)

SpecDepart == InitDepart /\ [][NextDepart]_vars

\* Two sessions: every connection joins the group or the second group under
\* the name A or B, and sends the leader-gated events and film:add for the
\* group.  The Store accepts every operation.
NextSessions ==
  \/ \E c \in Conns, n \in {"A", "B"} : GroupJoin(c, GroupCode, n)
  \/ \E c \in Conns : JoinWrite(c, TRUE)
  \/ \E c \in Conns : JoinFilms(c)
  \/ \E c \in Conns, n \in {"A", "B"} : JoinOther(c, n)
  \/ \E c \in Conns : JoinOtherFilms(c)
  \/ GatedStep({GroupCode}, {TRUE})
  \/ \E c \in Conns : FilmAdd(c, GroupCode, 1, TRUE)

SpecSessions == InitWith(MaxSessionOps) /\ [][NextSessions]_vars

\* Explicit leaves next to joins and disconnects of the group, with the
\* names A and B and a Store that accepts every write.
NextLeave ==
  \/ \E c \in Conns, n \in {"A", "B"} : GroupJoin(c, GroupCode, n)
  \/ \E c \in Conns : JoinWrite(c, TRUE)
  \/ \E c \in Conns : JoinFilms(c)
  \/ \E c \in Conns, n \in {"A", "B"} : GroupLeave(c, GroupCode, n)
  \/ \E c \in Conns : Disconnect(c)
  \/ \E c \in Conns : DiscCreator(c, TRUE)
  \/ \E c \in Conns : DiscRoster(c, TRUE)
  \/ \E c \in Conns : DiscReread(c)

SpecLeave == InitWith(MaxLeaveOps) /\ [][NextLeave]_vars

\* =================================================================== claims
Emitted(ev) == {e \in emitted : e.ev = ev}

\* The rows of vs that are p's vote for the film kid.
VoteRows(vs, p, kid) == {v \in vs : v.participantId = p /\ v.filmId = kid}

\* Every name of the roster ps holds a vote for every film of the catalog fs.
EveryoneVotedEveryFilm(ps, vs, fs) ==
  \A p \in Range(ps) : \A kid \in CatalogIds(fs) : VoteRows(vs, p, kid) # {}

\* C1: voting:all-completed is broadcast only if, in the roster, vote rows and
\* catalog the handler read, every roster name has exactly one vote for every
\* film of the catalog.
C1_AllCompletedOnlyAtQuorum ==
  \A e \in Emitted("voting:all-completed") :
    \A p \in Range(e.rdParts) : \A kid \in CatalogIds(e.rdFilms) :
      Cardinality(VoteRows(e.rdVotes, p, kid)) = 1

\* C2: a report handled when roster and catalog are non-empty and every roster
\* name holds a vote for every catalog film broadcasts voting:all-completed
\* to the whole room, whatever other vote rows are stored.
C2_QuorumIsBroadcast ==
  \A e \in Emitted("voting:completed") :
    (/\ e.rdParts # <<>>
     /\ e.rdFilms # <<>>
     /\ EveryoneVotedEveryFilm(e.rdParts, e.rdVotes, e.rdFilms))
    => \E d \in Emitted("voting:all-completed") : d.from = e.from /\ d.to = room

\* C3: between creation (or the last reset) and the next reset,
\* voting:all-completed is broadcast at most once.
C3_AllCompletedOnce == allCompleted <= 1

\* C4: the persisted participants list never contains the same name twice.
C4_NoDuplicateNames == NoDuplicates(participants)

\* C4 witness: a socket join is about to append a name that another join
\* (HTTP or socket) has put into the roster since the handler read it.
C4_Witness ==
  \E c \in Conns : h[c].pc = "join_write" /\ Includes(participants, h[c].name)

\* The leader as the specification words it: createdBy while it is in the
\* roster, else the first name of the roster, else nobody.
ClaimLeader(ps, cb) ==
  IF \E i \in 1..Len(ps) : ps[i] = cb THEN cb
  ELSE IF ps # <<>> THEN Head(ps) ELSE NoName

ResetPcs == {"reset_films", "reset_votes"}

FirstRemaining(ps, n) ==
  ps[CHOOSE i \in 1..Len(ps) :
       ps[i] # n /\ \A j \in 1..(i - 1) : ps[j] = n]

DiscPcs == {"disc_creator", "disc_roster", "disc_reread"}

C8_NoFailoverForOthers ==
  [][\A c \in Conns :
       /\ (Disconnect(c) /\ sock[c].participantName # createdBy)
            => /\ createdBy' = createdBy
               /\ h'[c].pc # "disc_creator"
               /\ \A e \in emitted' : e.ev # "group:creator-changed"
       /\ (h[c].pc \in DiscPcs /\ h'[c] # h[c] /\ h[c].name # h[c].cb)
            => /\ createdBy' = createdBy
               /\ h'[c].pc # "disc_creator"
               /\ \A e \in emitted' : e.ev # "group:creator-changed"
     ]_vars

\* C8 witness: the departing participant was the effective leader (first of
\* the roster it read) while the persisted createdBy was a name outside the
\* roster, and createdBy is still that name.
C8_Witness ==
  \E c \in Conns :
    /\ h[c].pc = "disc_reread"
    /\ h[c].parts # <<>>
    /\ h[c].parts[1] = h[c].name
    /\ h[c].cb # h[c].name
    /\ ~Includes(h[c].parts, h[c].cb)
    /\ createdBy = h[c].cb

\* C9: the leader the gates use is createdBy when it is in the roster,
\* otherwise participants[0], otherwise nobody: with a non-empty roster it is
\* a member of the roster, with an empty roster there is none, and every
\* accepted start or reset was requested by the leader of a non-empty roster.
C9_EffectiveLeader ==
  LET leader == EffectiveCreator(participants, createdBy) IN
  /\ leader = ClaimLeader(participants, createdBy)
  /\ participants # <<>> => leader \in Range(participants)
  /\ participants = <<>> => leader = NoName
  /\ \A e \in Emitted("voting:started") \cup Emitted("group:reset") :
       /\ e.rdParts # <<>>
       /\ e.rdName = ClaimLeader(e.rdParts, e.rdCb)
       /\ e.rdName \in Range(e.rdParts)
  /\ \A c \in Conns :
       h[c].pc \in ResetPcs
         => h[c].parts # <<>> /\ h[c].name = ClaimLeader(h[c].parts, h[c].cb)

\* C9 witness: voting was started by the first name of the roster while
\* createdBy named somebody no longer in the roster.
C9_Witness ==
  \E e \in Emitted("voting:started") :
    /\ ~Includes(e.rdParts, e.rdCb)
    /\ e.rdName = e.rdParts[1]
    /\ participants = e.rdParts
    /\ createdBy = e.rdCb

\* C10: a group:join for a name that already has a live connection in the
\* session delivers participant-joined to the joining connection only.
C10_NoRebroadcastOnRejoin ==
  \A e \in Emitted("group:participant-joined") :
    (\E d \in Conns \ {e.from} :
       /\ sock[d].open
       /\ d \in room
       /\ sock[d].participantName = e.participant)
    => e.to = {e.from}

\* The steps that end the roster part of a group:join that was not rejected:
\* the handler goes on to load the films.
JoinAccepted(c) == h[c].pc \in {"idle", "join_write"} /\ h'[c].pc = "join_films"

\* C11: every group:join that is not rejected delivers to the joining
\* connection a group:participant-joined event whose participants list is the
\* persisted roster and contains the joiner's own name.
C11_JoinerGetsRoster ==
  [][\A c \in Conns :
       JoinAccepted(c) =>
         \E e \in emitted' :
           /\ e.ev = "group:participant-joined"
           /\ c \in e.to
           /\ e.participants = participants'
           /\ Includes(e.participants, sock'[c].participantName)
     ]_vars

\* d is a live connection that has joined under the name n and is tracked
\* as present.
JoinedAs(d, n) ==
  /\ n # NoName
  /\ sock[d].open
  /\ d \in room
  /\ sock[d].participantName = n
  /\ n \in groupParticipants

\* C12: when a participant has two live joined connections and one of them
\* disconnects, no step of that disconnect removes the participant from the
\* live-presence set while the other connection stays joined.
C12_PresenceSurvivesOneClose ==
  [][\A c, d \in Conns :
       LET n == sock[d].participantName IN
       (/\ c # d
        /\ JoinedAs(d, n)
        /\ h[d].pc = "idle" /\ h'[d].pc = "idle"
        /\ \/ Disconnect(c) /\ JoinedAs(c, n)
           \/ h[c].pc \in DiscPcs /\ h[c].name = n)
       => n \in groupParticipants'
     ]_vars

\* No two films of the catalog fs share a kinopoiskId.
DistinctKinopoiskIds(fs) ==
  \A i, j \in 1..Len(fs) : fs[i].kinopoiskId = fs[j].kinopoiskId => i = j

\* C13: no two catalog films ever share a kinopoiskId; a film:add whose
\* kinopoiskId is already in the catalog (and whose Store call does not fail
\* otherwise) answers the requester alone with the Store's "already added"
\* error, broadcasts no group:film-added, and leaves roster and catalog
\* unchanged.
C13_NoDuplicateExternalId ==
  [][/\ DistinctKinopoiskIds(films')
     /\ \A c \in Conns, k \in KinopoiskIds :
          (FilmAdd(c, GroupCode, k, TRUE) /\ k \in CatalogIds(films))
          => /\ emitted' = {[ErrorTo(c) EXCEPT !.rdStore = TRUE,
                                              !.message = AlreadyAdded]}
             /\ films' = films
             /\ participants' = participants
     /\ \A e \in emitted' :
          e.ev = "group:film-added" /\ h[e.from].pc = "idle"
          => /\ e.films[1].kinopoiskId \notin CatalogIds(films)
             /\ e.films[1] \in Range(films')
    ]_vars

\* C13 witness: a connection in a room with another connection has just been
\* refused a film that is in the catalog.
C13_Witness ==
  \E c \in Conns :
    /\ emitted = {[ErrorTo(c) EXCEPT !.rdStore = TRUE, !.message = AlreadyAdded]}
    /\ c \in room
    /\ room # {c}
    /\ films # <<>>

\* The film of the catalog fs with document id `id`, NoFilmRow if there is none.
FilmById(fs, id) ==
  IF \E i \in 1..Len(fs) : fs[i].id = id
    THEN fs[CHOOSE i \in 1..Len(fs) : fs[i].id = id]
    ELSE NoFilmRow

\* C14: film:remove deletes a film and broadcasts group:film-removed only
\* when the requesting connection's participant name equals the film's
\* addedBy; for any other requester the film stays in the catalog, nothing is
\* broadcast, and the requester alone receives notification:error.
C14_RemoveOnlyByAdder ==
  [][/\ \A e \in emitted' :
          e.ev = "group:film-removed"
          => /\ e.films[1].addedBy = sock[e.from].participantName
             /\ e.films[1] \notin Range(films')
             /\ films' = WithoutFilm(films, e.films[1].id)
     /\ \A f \in Range(films) \ Range(films') :
          \E e \in emitted' :
            /\ e.ev = "group:film-removed"
            /\ e.films = <<f>>
            /\ f.addedBy = sock[e.from].participantName
     /\ \A c \in Conns :
          LET film == FilmById(films, h[c].film.id) IN
          (/\ h[c].pc = "remove_films"
           /\ h'[c] # h[c]
           /\ film # NoFilmRow
           /\ film.addedBy # sock[c].participantName)
          => /\ films' = films
             /\ emitted' = {[ErrorTo(c) EXCEPT !.rdStore = TRUE,
                                              !.message = NotYourFilm]}
             /\ h'[c].pc = "idle"
    ]_vars

\* C14 witness: a joined participant has just been refused the removal of a
\* film another participant added, in a room with another connection.
C14_Witness ==
  \E c \in Conns :
    /\ emitted = {[ErrorTo(c) EXCEPT !.rdStore = TRUE, !.message = NotYourFilm]}
    /\ sock[c].participantName \in Names
    /\ c \in room
    /\ room # {c}
    /\ \E f \in Range(films) : f.addedBy \in Names \ {sock[c].participantName}

\* The verdict of the last of the rows for the film kid.
LastVerdict(rows, kid) ==
  LET idx == {i \in 1..Len(rows) : rows[i].filmId = kid}
  IN rows[CHOOSE i \in idx : \A j \in idx : j <= i].vote

OneVerdictPerPair(vs) ==
  \A v, w \in vs :
    v.participantId = w.participantId /\ v.filmId = w.filmId => v = w

\* C15: after any sequence of vote submissions the persisted votes hold at
\* most one verdict per (film, participant); a stored batch leaves, for every
\* film it names, exactly the verdict it gave last for that film, and leaves
\* every other row as it was.
C15_OneVerdictLastWins ==
  [][/\ OneVerdictPerPair(votes')
     /\ \A e \in emitted' :
          e.ev = "http:votes-saved"
          => \A v \in votes \cup votes' :
               IF /\ v.participantId = e.participant
                  /\ \E i \in 1..Len(e.rdBatch) : e.rdBatch[i].filmId = v.filmId
                 THEN (v \in votes') = (v.vote = LastVerdict(e.rdBatch, v.filmId))
                 ELSE (v \in votes') = (v \in votes)
     /\ (votes' # votes => \E e \in emitted' : e.ev = "http:votes-saved")
    ]_vars

\* C15 witness: a batch that names film 1 twice, first liked and then
\* disliked, has just been stored for a participant that had a row for
\* film 2, and the participant's only row for film 1 is the dislike.
C15_Witness ==
  /\ votes = {[participantId |-> "A", filmId |-> 1, vote |-> "dislike"],
              [participantId |-> "A", filmId |-> 2, vote |-> "like"]}
  /\ \E e \in emitted :
       /\ e.ev = "http:votes-saved"
       /\ e.participant = "A"
       /\ Len(e.rdBatch) = 2
       /\ e.rdBatch[1].filmId = 1 /\ e.rdBatch[1].vote = "like"
       /\ e.rdBatch[2].filmId = 1 /\ e.rdBatch[2].vote = "dislike"

\* The kinopoiskId of the first film of fs, in catalog order, that every one
\* of the n participants liked and nobody disliked; NoFilm if there is none.
FirstUnanimous(vs, fs, n) ==
  LET idx == {i \in 1..Len(fs) :
                /\ Likes(vs, fs[i].kinopoiskId) = n
                /\ Dislikes(vs, fs[i].kinopoiskId) = 0}
  IN IF idx = {} THEN NoFilm
     ELSE fs[CHOOSE i \in idx : \A j \in idx : i <= j].kinopoiskId

\* C16: the superMatch of the results is the first film in catalog order
\* whose like count equals the number of participants and whose dislike
\* count is zero, and none when no film qualifies.
C16_SuperMatchIsFirst ==
  \A e \in Emitted("voting:all-completed") :
    e.results.superMatch = FirstUnanimous(e.rdVotes, e.rdFilms, Len(e.rdParts))

\* The kinopoiskId of the film with the most likes among the films of fs at
\* the positions idx, the earliest of them on a tie; NoFilm if idx is empty.
MostLiked(vs, fs, idx) ==
  IF idx = {} THEN NoFilm
  ELSE fs[CHOOSE i \in idx :
            \A j \in idx :
              \/ Likes(vs, fs[j].kinopoiskId) < Likes(vs, fs[i].kinopoiskId)
              \/ /\ Likes(vs, fs[j].kinopoiskId) = Likes(vs, fs[i].kinopoiskId)
                 /\ i <= j].kinopoiskId

\* The positions of the films of fs that have at least one vote row.
VotedPositions(vs, fs) ==
  {i \in 1..Len(fs) : FilmVotes(vs, fs[i].kinopoiskId) # {}}

C18_ErrorsToOriginatorOnly ==
  \A e \in emitted :
    e.ev = "notification:error"
    => /\ e.from \in Conns
       /\ e.to = {e.from}
       /\ emitted = {e}

\* C18 witness: a connection that shares the room with another connection
\* has just been answered with an error.
C18_Witness ==
  \E c \in Conns :
    /\ c \in room
    /\ room # {c}
    /\ \E e \in emitted : e.ev = "notification:error" /\ e.from = c

\* The code as sent is, once trimmed and uppercased, five characters of
\* A-Z / 0-9.
FiveAlphanumerics(code) ==
  LET t == ToUpperCase(Trim(code)) IN
  Len(t) = 5 /\ \A i \in 1..Len(t) : t[i] \in {"A", "B", "1", "2", "3", "4"}

\* The name as sent is blank once trimmed.
BlankName(n) == n \in {NoName, " "}

\* The (code, name) pairs of group:join that must be refused.
InvalidJoinInputs ==
  {x \in JoinCodes \X (NameInputs \cup {NoName}) :
     ~FiveAlphanumerics(x[1]) \/ BlankName(x[2])}

\* C19: a group:join whose code, trimmed and uppercased, is empty or is not
\* five characters of A-Z / 0-9, or whose name is empty after trimming, is
\* answered with notification:error before any Store call; the Store, the
\* registry, the room and socket.data are unchanged and nothing of the
\* handler stays in flight.
C19_InvalidJoinRejected ==
  [][\A c \in Conns :
       LET refused == /\ emitted' = {ErrorTo(c)}
                      /\ \A e \in emitted' : ~e.rdStore
                      /\ UNCHANGED <<store, registry, room, sock>>
                      /\ h'[c] = Idle
       IN refused \/ \A x \in InvalidJoinInputs : ~GroupJoin(c, x[1], x[2])
     ]_vars

\* C19 witness: while another connection is in the room, a connection has
\* just been refused before any Store call and is neither in the room nor in
\* the registry.
C19_Witness ==
  \E c \in Conns :
    /\ emitted = {ErrorTo(c)}
    /\ c \notin room
    /\ c \notin groupSockets
    /\ sock[c].participantName = NoName
    /\ room # {}

\* C20: if the Store write that appends a new name to the roster fails
\* during group:join, the join is aborted: the connection is not put in the
\* registry or the room, no group:participant-joined is emitted, and the
\* joining connection receives notification:error.
C20_FailedWriteAbortsJoin ==
  [][\A c \in Conns :
       JoinWrite(c, FALSE)
       => /\ c \notin room'
          /\ c \notin groupSockets'
          /\ groupParticipants' = groupParticipants
          /\ emitted' # {}
          /\ emitted' \subseteq ErrorsTo(c)
     ]_vars

\* C21: the roster write of a group:join replaces the whole list by the
\* roster the handler read plus its own name, without an error: a name that
\* another join appended between the read and the write, and that the
\* handler did not read, is no longer in the persisted roster afterwards.
C21_LaterWriteOverwrites ==
  [][\A c \in Conns :
       (h[c].pc = "join_write" /\ h'[c].pc # "join_write")
       => /\ participants' = Append(h[c].parts, h[c].name)
          /\ \A n \in Range(participants) \ Range(h[c].parts) :
               n # h[c].name => ~Includes(participants', n)
          /\ \A e \in emitted' : e.ev # "notification:error"
     ]_vars

\* C21 witness: two connections have joined as B and as C, both handlers are
\* finished, both connections are in the room, and the persisted roster
\* holds C but not B.
C21_Witness ==
  \E c, d \in Conns :
    /\ c # d
    /\ h[c].pc = "idle" /\ h[d].pc = "idle"
    /\ sock[c].participantName = "B" /\ sock[d].participantName = "C"
    /\ {c, d} \subseteq room
    /\ participants = <<"A", "C">>
    /\ \A e \in emitted : e.ev # "notification:error"

\* C22: the step that ends a handled voting:completed report broadcasts
\* exactly one of voting:completed (progress) and voting:all-completed,
\* never both.
C22_ProgressXorAllCompleted ==
  \A c \in Conns :
    LET progress == {e \in Emitted("voting:completed") : e.from = c}
        done == {e \in Emitted("voting:all-completed") : e.from = c}
    IN progress \cup done # {}
       => /\ Cardinality(progress \cup done) = 1
          /\ (progress = {} \/ done = {})

\* The quorum decision as a function of a roster, vote rows and a catalog
\* alone: roster and catalog are not empty and every roster name has a vote
\* row for as many films as the catalog holds.
QuorumOf(ps, vs, fs) ==
  /\ ps # <<>>
  /\ fs # <<>>
  /\ \A p \in Range(ps) : Cardinality(VotedFilmIds(vs, p)) = Len(fs)

C24_VoteIsPersisted ==
  \A e \in Emitted("voting:vote-cast") :
    (e.participant # NoName /\ e.from \in room)
    => \E v \in votes :
         /\ v.participantId = e.participant
         /\ v.filmId = e.filmId
         /\ v.vote = e.vote

\* C25: a film:add whose kinopoiskId is not a positive number is answered
\* with notification:error to the requester before any Store call, writes
\* nothing to the Store and broadcasts nothing.
C25_NonPositiveIdRejected ==
  [][\A c \in Conns, k \in {x \in AnyKinopoiskIds : x <= 0}, ok \in BOOLEAN :
       FilmAdd(c, GroupCode, k, ok)
       => /\ emitted' = {ErrorTo(c)}
          /\ UNCHANGED store
     ]_vars

\* C26: when the disconnect handler of a joined connection runs with no
\* other handler in flight and no Store error, it ends with the departing
\* name absent from the persisted roster and with one group:participant-left
\* event, sent to the connections left in the room and not to the departing
\* one, that names the departing participant and carries the persisted
\* roster.
C26_LeftCarriesUpdatedRoster ==
  [][\A c \in Conns :
       /\ (/\ Disconnect(c)
           /\ sock[c].groupCode # NoCode
           /\ sock[c].participantName # NoName)
            => h'[c].pc \in DiscPcs /\ h'[c].name = sock[c].participantName
       /\ (h[c].pc = "disc_reread" /\ h'[c].pc # "disc_reread")
            => /\ ~Includes(participants', h[c].name)
               /\ c \notin room
               /\ \E e \in emitted' :
                    /\ emitted' = {e}
                    /\ e.ev = "group:participant-left"
                    /\ e.to = room \ {c}
                    /\ e.participant = h[c].name
                    /\ e.participants = participants'
     ]_vars

\* C26 witness: B has disconnected from roster [A, B] while A's connection
\* stays in the room; A's connection has just been sent participant-left
\* with the roster [A].
C26_Witness ==
  \E e \in Emitted("group:participant-left") :
    /\ e.participant = "B"
    /\ e.to # {}
    /\ e.from \notin e.to
    /\ e.participants = <<"A">>
    /\ participants = <<"A">>
    /\ \A d \in e.to : sock[d].participantName = "A"

AnsweredWithError(c) == emitted' # {} /\ emitted' \subseteq ErrorsTo(c)

\* C28: every client event the server rejects or fails to process (a code
\* of no session, a requester that may not do it, a Store operation that
\* fails) is answered with notification:error to the originating
\* connection; no handler ends such an event silently.
C28_NoSilentRejection ==
  [][\A c \in Conns :
       LET leader == EffectiveCreator(participants, createdBy)
           notLeader == leader = NoName \/ sock[c].participantName # leader
       IN
       /\ \A code \in ErrorCodes :
            /\ (VotingCompleted(c, code, "A") /\ code # GroupCode)
                 => AnsweredWithError(c)
            /\ (GroupReset(c, code) /\ (code # GroupCode \/ notLeader))
                 => AnsweredWithError(c)
            /\ (VotingStart(c, code) /\ (code # GroupCode \/ notLeader))
                 => AnsweredWithError(c)
            /\ \A n \in Names :
                 (GroupJoin(c, code, n) /\ code # GroupCode)
                 => AnsweredWithError(c)
            /\ \A k \in {0, 1}, ok \in BOOLEAN :
                 (FilmAdd(c, code, k, ok) /\ (code # GroupCode \/ k = 0 \/ ~ok))
                 => AnsweredWithError(c)
       /\ (\/ JoinWrite(c, FALSE)
           \/ ResetDeleteFilms(c, FALSE)
           \/ ResetDeleteVotes(c, FALSE)
           \/ RemoveDelete(c, FALSE))
            => AnsweredWithError(c)
     ]_vars

\* The codes a client may send that are not, once trimmed and uppercased,
\* five characters of A-Z / 0-9.
MalformedCodes == {code \in JoinCodes : ~FiveAlphanumerics(code)}

\* C29: group:join, film:add, film:remove, voting:start, voting:completed
\* and group:reset with a code that is not a well-formed five-character
\* code are answered with notification:error before any Store call, and
\* nothing of the handler stays in flight.
C29_MalformedCodeNeverReachesStore ==
  [][\A c \in Conns, code \in MalformedCodes :
       (\/ \E n \in {"A", "B"} : GroupJoin(c, code, n)
        \/ FilmAdd(c, code, 1, TRUE)
        \/ \E f \in RemoveIdInputs(films) : FilmRemove(c, code, f)
        \/ VotingStart(c, code)
        \/ GroupReset(c, code)
        \/ VotingCompleted(c, code, "A"))
       => /\ emitted' = {ErrorTo(c)}
          /\ UNCHANGED store
          /\ h'[c] = Idle
     ]_vars

\* C30: when a client handles group:film-removed {filmId, films: null}, its
\* film lists (the hook's `films` and the page's `initialFilms`) are
\* afterwards lists that hold exactly the films they held before except the
\* film with that id.
C30_ClientRemovesExactlyThatFilm ==
  [][\A c \in Conns :
       \A e \in emitted :
         (/\ e.ev = "group:film-removed"
          /\ c \in e.to
          /\ client'[c].got # client[c].got)
         => /\ client'[c].films.isList
            /\ client'[c].films.items
                 = WithoutFilm(client[c].films.items, e.films[1].id)
            /\ client'[c].initialFilms
                 = WithoutFilm(client[c].initialFilms, e.films[1].id)
     ]_vars

\* C31: after every transport reconnection the client eventually re-emits
\* group:join for its session with the saved participant name: whenever a
\* mounted client is connected by a reconnection, a group:join is, or will
\* be, emitted on that connection.
C31_RejoinAfterReconnect ==
  \A c \in Conns :
    (client[c].mounted /\ client[c].isConnected /\ client[c].reconnected)
      ~> (client[c].joinEmitted \/ ~client[c].isConnected)

\* C32: in every quiescent state (no handler or request in flight) the name
\* of every open connection that has joined the group (it is in the room and
\* socket.data holds the name) is in the persisted roster.
C32_ConnectedNamesInRoster ==
  Quiet =>
    \A d \in Conns :
      (sock[d].open /\ d \in room /\ sock[d].participantName # NoName)
        => Includes(participants, sock[d].participantName)

\* C33: once the disconnect handlers of two different participants have both
\* run to their end (in any interleaving, every Store write accepted),
\* neither departed name is in the persisted roster.
C33_BothDepartedNamesRemoved ==
  (\A c \in Conns : ~sock[c].open /\ h[c].pc = "idle")
    => \A c \in Conns : ~Includes(participants, TabName[c])

\* C34: voting:start and group:reset on the group are accepted only from a
\* connection that has joined the group (it is in the group's room); a
\* connection that joined another session under the leader's name is
\* refused.
C34_GatedOnlyFromMembers ==
  [][\A c \in Conns :
       (\/ VotingStart(c, GroupCode) /\ \E e \in emitted' : e.ev = "voting:started"
        \/ GroupReset(c, GroupCode) /\ h'[c].pc \in ResetPcs)
         => c \in room
     ]_vars

\* C35: film:add adds a film only for a connection that has joined the group
\* (it is in the group's room), and the addedBy of the film added is a name
\* of the roster as persisted when the film is added.
C35_FilmsAddedByMembers ==
  [][\A c \in Conns :
       (FilmAdd(c, GroupCode, 1, TRUE) /\ Len(films') > Len(films))
         => /\ c \in room
            /\ Includes(participants, films'[Len(films')].addedBy)
     ]_vars

\* C36: in every reachable state every persisted vote row refers to a film
\* (by its kinopoiskId) that is in the catalog.
C36_VotesReferToCatalogFilms ==
  \A v \in votes : v.filmId \in CatalogIds(films)

\* C37: in every voting:all-completed event the number of voters counted in
\* the results equals the number of participants of the roster the results
\* were computed for.
C37_VotedEqualsTotal ==
  \A e \in Emitted("voting:all-completed") :
    e.results.votedParticipants = e.results.totalParticipants

\* C38: the participants list of every group:participant-left event that
\* reaches a connection equals the persisted roster at the time the event
\* is emitted, for group:leave as well as for disconnect.
C38_LeftCarriesPersistedRoster ==
  \A e \in Emitted("group:participant-left") :
    e.to # {} => e.participants = participants

====
